---- MODULE Spec2Model ----
(***************************************************************************)
(* PixelPrep image-optimization engine: the preset processors' geometry,   *)
(* their quality-descent compression searches, save_optimized and the      *)
(* optimize request that composes them.                                    *)
(***************************************************************************)
EXTENDS Integers, Sequences, FiniteSets, TLC

(***************************************************************************)
(* Python float arithmetic.  The processors scale a side with              *)
(*     int(n * (a / b))     and     int(n / (a / b))                       *)
(* for positive ints n, a, b: a / b is the IEEE-754 double nearest to the  *)
(* quotient (53-bit significand, round to nearest even), the product or    *)
(* quotient with n is rounded again, and int() truncates.  The result is   *)
(* floor(n*a/b) (floor(n*b/a)) unless that quotient is a whole number V:   *)
(* then the two roundings decide between V and V - 1.  All operands are    *)
(* below 2^13, which keeps every intermediate within 32 bits.              *)
(***************************************************************************)
RECURSIVE Pow2(_)
Pow2(n) == IF n = 0 THEN 1 ELSE 2 * Pow2(n - 1)

\* The k with b * 2^k <= a < b * 2^(k+1), for positive integers a and b.
RECURSIVE BinaryExponent(_, _)
BinaryExponent(a, b) ==
    IF a < b THEN BinaryExponent(2 * a, b) - 1
    ELSE IF a >= 2 * b THEN BinaryExponent(a, 2 * b) + 1
    ELSE 0

\* The j with 2^j <= v < 2^(j+1), for v >= 1.
ILog2(v) == BinaryExponent(v, 1)

\* a / b as a double: with k = BinaryExponent(a, b) the quotient is
\* n0/d0 * 2^k, n0/d0 in [1, 2), and the significand is n0 * 2^52 / d0
\* rounded to an integer.  rem is what the 52-bit long division leaves,
\* (n0 * 2^52) mod d0: 0 means a / b is exact, 2 * rem < d0 that it was
\* rounded down, 2 * rem > d0 that it was rounded up (a tie cannot occur for
\* operands this small).
FloatDiv(a, b) ==
    LET k   == BinaryExponent(a, b)
        n0  == IF k >= 0 THEN a ELSE a * Pow2(-k)
        d0  == IF k >= 0 THEN b * Pow2(k) ELSE b
        x13 == 8192 % d0
        x26 == (x13 * x13) % d0
        x52 == (x26 * x26) % d0
    IN  [k |-> k, n0 |-> n0, d0 |-> d0, rem |-> ((n0 - d0) * x52) % d0]

\* x * v <= z * 2^j, with x * v and z * 2^j possibly beyond 32 bits
\* (x, z < 2^15, v < 2^27): both sides are split at bit 13.
MulLeqPow2(x, v, z, j) ==
    IF j < 13 THEN x * v <= z * Pow2(j)
    ELSE LET low  == x * (v % 8192)
             high == x * (v \div 8192) + (low \div 8192)
         IN  \/ high < z * Pow2(j - 13)
             \/ high = z * Pow2(j - 13) /\ low % 8192 = 0

\* int(n * (a / b)).
IntTimesRatio(n, a, b) ==
    LET V == (n * a) \div b
        s == FloatDiv(a, b)
    IN  IF (n * a) % b # 0 \/ s.rem = 0 \/ 2 * s.rem > s.d0 THEN V
        ELSE \* a / b was rounded down and n*a/b is the whole number V: the
             \* exact product lies n * rem * 2^(k-52) / d0 below V, and the
             \* rounding of the product brings it back to V only if that is
             \* at most half the spacing of the doubles just below V.
             LET j == ILog2(V)
                 c == IF V > Pow2(j) THEN 2 ELSE 4
             IN  IF c * n * s.rem <= s.d0 * Pow2(j - s.k) THEN V ELSE V - 1

\* int(n / (a / b)).
IntOverRatio(n, a, b) ==
    LET V == (n * b) \div a
        s == FloatDiv(a, b)
    IN  IF (n * b) % a # 0 \/ s.rem = 0 \/ 2 * s.rem < s.d0 THEN V
        ELSE \* a / b was rounded up by (d0 - rem) / d0 units in the last
             \* place, so the exact quotient lies below the whole number V.
             LET j == ILog2(V)
                 c == IF V > Pow2(j) THEN 2 ELSE 4
             IN  IF MulLeqPow2(c * (s.d0 - s.rem), V, s.n0, j) THEN V
                 ELSE V - 1

(***************************************************************************)
(* Preset constants.                                                       *)
(***************************************************************************)
Instagram_TARGET_WIDTH == 1080
Instagram_TARGET_HEIGHT == 1080
Instagram_MAX_FILE_SIZE_MB == 4
Instagram_FORMAT == "JPEG"
Instagram_QUALITY_START == 95
Instagram_QUALITY_MIN == 60
Instagram_QUALITY_STEP == 5

Jury_TARGET_MAX_DIMENSION == 1920
Jury_MIN_FILE_SIZE_MB == 1
Jury_MAX_FILE_SIZE_MB == 2
Jury_FORMAT == "JPEG"
Jury_QUALITY_START == 95
Jury_QUALITY_MIN == 60
Jury_QUALITY_STEP == 5
Jury_DPI == 150

Web_TARGET_WIDTH == 1920
Web_MAX_FILE_SIZE_KB == 500
Web_PRIMARY_FORMAT == "WebP"
Web_FALLBACK_FORMAT == "JPEG"
Web_QUALITY_START == 90
Web_QUALITY_MIN == 50
Web_QUALITY_STEP == 5
Web_METHOD == 6

Email_TARGET_WIDTH == 600
Email_MAX_FILE_SIZE_KB == 200
Email_FORMAT == "JPEG"
Email_QUALITY_START == 85
Email_QUALITY_MIN == 40
Email_QUALITY_STEP == 5

Compress_TARGET_REDUCTION_PERCENT == 70
Compress_FORMAT == "JPEG"
Compress_QUALITY_START == 95
Compress_QUALITY_MIN == 30
Compress_MAX_ITERATIONS == 20
Compress_ESTIMATE_QUALITY == 95
Compress_SAVE_QUALITY_STEP == 5

Custom_QUALITY_STEP == 5
Custom_PNG_COMPRESS_LEVEL == 9
Custom_FALLBACK_METHOD == 6
Custom_WEBP_MIN_FLOOR == 30
Custom_WEBP_MIN_DROP == 10

\* OPTIMIZATION_STRATEGIES of custom.py.
OPTIMIZATION_STRATEGIES ==
    [quality |-> [quality_start |-> 95, quality_min |-> 80,
                  progressive |-> TRUE, method |-> 6],
     size    |-> [quality_start |-> 75, quality_min |-> 45,
                  progressive |-> FALSE, method |-> 4]]

\* str.upper() on the format names a caller can pass.
Upper(s) ==
    CASE s \in {"JPEG", "jpeg"} -> "JPEG"
      [] s \in {"WebP", "WEBP", "webp"} -> "WEBP"
      [] s \in {"PNG", "png"} -> "PNG"

(***************************************************************************)
(* Image.save keyword arguments.  An argument that is not passed is the    *)
(* empty set, one that is passed the singleton of its value.               *)
(***************************************************************************)
SaveKwargs(format_type) ==
    [format |-> format_type, quality |-> {}, optimize |-> {},
     progressive |-> {}, method |-> {}, lossless |-> {},
     compress_level |-> {}, dpi |-> {}]

(***************************************************************************)
(* Bounds of the model.                                                    *)
(***************************************************************************)
\* Encoded sizes are drawn from SizeSpread bytes below each size threshold
\* of the run up to one byte above it.
SizeSpread == 1

\* The byte count the quick-compress estimate (an encode at quality 95)
\* comes to.
OriginalSize == 1000

VARIABLES
    proc,      \* the function or processor under execution
    cfg,       \* its arguments (optimize_file_size, CustomProcessor.__init__)
    webp,      \* whether the Pillow build can write WebP
    image,     \* the image the current step works on (the search's input)
    format,    \* format_type of the running search (self.format for Custom)
    quality,   \* the search loop's quality variable
    pc,        \* position in the running call
    attempts,  \* the Image.save calls of the running search, in order
    known,     \* encoder outputs seen so far: (image, kwargs) -> byte count
    result,    \* what the search returned: the Image and its encoding
    error,     \* the exception that left the call, if any
    entry,     \* the call under observation: "search", "process", ...
    source,    \* the image that call was given
    output_path,    \* suffix of the path save_optimized writes to
    final_quality,  \* save_optimized's final_quality; {} is None
    file,      \* the file save_optimized wrote: its arguments and size
    metadata,  \* the mapping save_optimized returned
    image_data,     \* the bytes _process_image encoded for the client
    response,  \* the HTTP response of optimize_image
    locals,    \* further local variables of the running search
    request,   \* what optimize_image was called with
    stages,    \* the stages of optimize_image entered so far, in order
    tmp_files, \* the temporary files of the request that exist
    instances, \* the attributes of each processor object of PROCESSORS
    parked     \* the other of two concurrent requests, while it waits

vars == <<proc, cfg, webp, image, format, quality, pc, attempts, known,
          result, error, entry, source, output_path, final_quality, file,
          metadata, image_data, response, locals, request, stages,
          tmp_files, instances, parked>>

\* What the search and process() leave alone.
saving == <<output_path, final_quality, file, metadata, image_data, response>>

\* What only optimize_image writes.
api == <<request, stages, tmp_files>>

\* What only quick compress and optimize_image write.
outside == <<locals, api>>

\* What no call writes: the registry's objects, and the waiting request,
\* which only the scheduler exchanges.
conc == <<instances, parked>>

\* A search whose whole state is its quality.
NoLocals == [none |-> TRUE]

\* A call that is not made through optimize_image.
NoRequest ==
    /\ request = [none |-> TRUE]
    /\ stages = << >>
    /\ tmp_files = {}

None == "None"

\* The processor classes define no __init__: the objects of the registry
\* are created without attributes.
NoAttributes == << >>

\* One call at a time: no second request waits.
NoThread == [id |-> 0]

Sequential ==
    /\ instances = [id \in {"instagram_square", "jury_submission",
                            "web_display", "email_newsletter",
                            "quick_compress"} |-> NoAttributes]
    /\ parked = NoThread

\* The value of an argument that was passed.
The(s) == CHOOSE x \in s : TRUE

(***************************************************************************)
(* Search parameters of each processor.                                    *)
(***************************************************************************)
max_size_bytes ==
    CASE proc = "utils"     -> cfg.max_size_bytes
      [] proc = "instagram" -> Instagram_MAX_FILE_SIZE_MB * 1024 * 1024
      [] proc = "jury"      -> Jury_MAX_FILE_SIZE_MB * 1024 * 1024
      [] proc = "web"       -> Web_MAX_FILE_SIZE_KB * 1024
      [] proc = "email"     -> Email_MAX_FILE_SIZE_KB * 1024
      [] proc = "custom"    -> cfg.max_size_kb * 1024

min_size_bytes == Jury_MIN_FILE_SIZE_MB * 1024 * 1024

\* CustomProcessor.__init__: the strategy's quality range; PNG has no floor.
Custom_quality_start == OPTIMIZATION_STRATEGIES[cfg.strategy].quality_start

\* self.format as __init__ leaves it.
Custom_format == Upper(cfg.format)

\* self.quality_min: {} is None.
Custom_quality_min ==
    IF Custom_format = "PNG" THEN {}
    ELSE IF Custom_format = "WebP" /\ cfg.strategy = "size"
    THEN LET m == OPTIMIZATION_STRATEGIES[cfg.strategy].quality_min
                      - Custom_WEBP_MIN_DROP
         IN  {IF m > Custom_WEBP_MIN_FLOOR THEN m ELSE Custom_WEBP_MIN_FLOOR}
    ELSE {OPTIMIZATION_STRATEGIES[cfg.strategy].quality_min}

Custom_progressive == OPTIMIZATION_STRATEGIES[cfg.strategy].progressive

Custom_webp_method == OPTIMIZATION_STRATEGIES[cfg.strategy].method

quality_start ==
    CASE proc = "utils"     -> cfg.quality_start
      [] proc = "instagram" -> Instagram_QUALITY_START
      [] proc = "jury"      -> Jury_QUALITY_START
      [] proc = "web"       -> Web_QUALITY_START
      [] proc = "email"     -> Email_QUALITY_START
      [] proc = "custom"    -> Custom_quality_start
      [] proc = "compress"  -> Compress_QUALITY_START

\* The bound of the loop condition `quality >= ...`.
quality_min ==
    CASE proc = "utils"     -> cfg.quality_min
      [] proc = "instagram" -> Instagram_QUALITY_MIN
      [] proc = "jury"      -> Jury_QUALITY_MIN
      [] proc = "web"       -> Web_QUALITY_MIN
      [] proc = "email"     -> Email_QUALITY_MIN
      [] proc = "custom"    ->
           IF Custom_quality_min = {} THEN 0 ELSE The(Custom_quality_min)
      [] proc = "compress"  -> Compress_QUALITY_MIN

quality_step ==
    CASE proc = "utils"     -> cfg.quality_step
      [] proc = "instagram" -> Instagram_QUALITY_STEP
      [] proc = "jury"      -> Jury_QUALITY_STEP
      [] proc = "web"       -> Web_QUALITY_STEP
      [] proc = "email"     -> Email_QUALITY_STEP
      [] proc = "custom"    -> Custom_QUALITY_STEP
      [] proc = "compress"  -> Compress_SAVE_QUALITY_STEP

(***************************************************************************)
(* The encoder.  Image.save is a deterministic function of the image and   *)
(* the save arguments; which byte count it yields is not known before the  *)
(* call, so the first call with given arguments draws it and later calls   *)
(* repeat it.                                                              *)
(***************************************************************************)
Thresholds ==
    IF proc = "jury" THEN {min_size_bytes, max_size_bytes}
    ELSE {max_size_bytes}

\* Quick compress compares an encoding with fractions of the estimated
\* original: 30% is the target of process(), 33%, 36% and 45% are where its
\* loop stops and changes its step, 37% and 44% are the reductions
\* save_optimized tests for.  The sizes are taken well below the target, at
\* the tolerance and just over each fraction; a request, which runs process()
\* and save_optimized in turn, takes the sizes at and just over the
\* fraction that ends each loop.
Compress_search_sizes(original) ==
    IF entry = "request"
    THEN {(33 * original) \div 100, (45 * original) \div 100 + 1}
    ELSE {(20 * original) \div 100, (33 * original) \div 100}
         \cup {(pct * original) \div 100 + 1 : pct \in {33, 36, 45}}

Compress_save_sizes(original) ==
    IF entry = "request"
    THEN {(37 * original) \div 100, (37 * original) \div 100 + 1}
    ELSE UNION {{(pct * original) \div 100, (pct * original) \div 100 + 1} :
                  pct \in {37, 44}}

EncodedSizes ==
    IF proc = "compress"
    THEN Compress_search_sizes(OriginalSize)
         \cup Compress_save_sizes(OriginalSize)
    ELSE IF parked.id # 0
    THEN \* two requests at once: an encoding fits the limit or just fails to
         {max_size_bytes, max_size_bytes + 1}
    ELSE UNION {(t - SizeSpread)..(t + 1) : t \in Thresholds}

\* Pillow looks the writer up by the upper-cased format name.
CodecKey(img, kw) ==
    [image |-> img, kwargs |-> [kw EXCEPT !.format = Upper(kw.format)]]

\* The modes with an alpha band.
AlphaModes == {"RGBA", "LA"}

\* The exception Image.save raises for these arguments, or None: a build
\* without WebP cannot write it, JPEG has no alpha or palette modes, and
\* PNG has no CMYK or YCbCr mode.
SaveError(img, kw) ==
    IF Upper(kw.format) = "WEBP" /\ ~webp THEN "OSError"
    ELSE IF Upper(kw.format) = "JPEG" /\ img.mode \in AlphaModes \cup {"P"}
    THEN "OSError"
    ELSE IF Upper(kw.format) = "PNG" /\ img.mode \in {"CMYK", "YCbCr"}
    THEN "OSError"
    ELSE None

Encode(img, kw, size) ==
    LET key == CodecKey(img, kw)
    IN  /\ key \in DOMAIN known => size = known[key]
        /\ known' = (key :> size) @@ known

\* The mode a file of the format opens in: WebP holds RGB or RGBA, a
\* three-component JPEG opens as RGB, PNG keeps the mode it was given.
DecodedMode(mode, fmt) ==
    CASE fmt = "WEBP" -> IF mode \in AlphaModes THEN "RGBA" ELSE "RGB"
      [] fmt = "JPEG" -> IF mode = "YCbCr" THEN "RGB" ELSE mode
      [] OTHER        -> mode

\* Image.open(output_buffer): the decoded encoding.
Decoded(img, kw) ==
    [size |-> img.size, mode |-> DecodedMode(img.mode, Upper(kw.format)),
     pixels |-> "decoded", format |-> Upper(kw.format)]

\* `return Image.open(output_buffer)` of a search: the decoded image,
\* with the encoding it was read from; branch tells the accepting return
\* inside the loop from the fallback return after it.
Return(kw, size, branch) ==
    /\ result' = [image |-> Decoded(image, kw), kwargs |-> kw,
                  size |-> size, branch |-> branch]
    /\ pc' = "returned"
    /\ UNCHANGED <<quality, error, format, image>>

Raise(exc) ==
    /\ error' = exc
    /\ pc' = "raised"
    /\ UNCHANGED <<quality, result, image, format, known, attempts>>

\* One Image.save call of a search: where in the search it was made, what
\* was passed, and the byte count it produced.
Attempt(phase, kw, size) == [phase |-> phase, kwargs |-> kw, size |-> size]

\* The loop has been left without a return: its condition failed or it
\* executed `break`.
LoopExited == pc = "fallback" \/ (pc = "loop" /\ quality < quality_min)

\* LoopAttempt accepting only sizes strictly below the ceiling.
LoopAttempt_strict(kw) ==
    /\ pc = "loop"
    /\ quality >= quality_min
    /\ IF SaveError(image, kw) # None THEN Raise(SaveError(image, kw))
       ELSE \E size \in EncodedSizes :
              /\ Encode(image, kw, size)
              /\ attempts' = Append(attempts, Attempt("loop", kw, size))
              /\ IF size < max_size_bytes
                 THEN Return(kw, size, "accepted")
                 ELSE /\ quality' = quality - quality_step
                      /\ UNCHANGED <<pc, image, result, error, format>>
    /\ UNCHANGED <<proc, cfg, webp, entry, conc, source, saving, outside>>

\* LoopAttempt lowering the quality by one instead of by the step.
LoopAttempt_unit_step(kw) ==
    /\ pc = "loop"
    /\ quality >= quality_min
    /\ IF SaveError(image, kw) # None THEN Raise(SaveError(image, kw))
       ELSE \E size \in EncodedSizes :
              /\ Encode(image, kw, size)
              /\ attempts' = Append(attempts, Attempt("loop", kw, size))
              /\ IF size <= max_size_bytes
                 THEN Return(kw, size, "accepted")
                 ELSE /\ quality' = quality - 1
                      /\ UNCHANGED <<pc, image, result, error, format>>
    /\ UNCHANGED <<proc, cfg, webp, entry, conc, source, saving, outside>>

\* LoopAttempt leaving the quality where it is after a failed save.
LoopAttempt_no_descent(kw) ==
    /\ pc = "loop"
    /\ quality >= quality_min
    /\ IF SaveError(image, kw) # None THEN Raise(SaveError(image, kw))
       ELSE \E size \in EncodedSizes :
              /\ Encode(image, kw, size)
              /\ attempts' = Append(attempts, Attempt("loop", kw, size))
              /\ IF size <= max_size_bytes
                 THEN Return(kw, size, "accepted")
                 ELSE /\ quality' = quality
                      /\ UNCHANGED <<pc, image, result, error, format>>
    /\ UNCHANGED <<proc, cfg, webp, entry, conc, source, saving, outside>>

\* One pass of a ceiling loop: save at the current quality, return the
\* encoding if it fits, else lower the quality by the step.
LoopAttempt(kw) ==
    /\ pc = "loop"
    /\ quality >= quality_min
    /\ IF SaveError(image, kw) # None THEN Raise(SaveError(image, kw))
       ELSE \E size \in EncodedSizes :
              /\ Encode(image, kw, size)
              /\ attempts' = Append(attempts, Attempt("loop", kw, size))
              /\ IF size <= max_size_bytes
                 THEN Return(kw, size, "accepted")
                 ELSE /\ quality' = quality - quality_step
                      /\ UNCHANGED <<pc, image, result, error, format>>
    /\ UNCHANGED <<proc, cfg, webp, entry, conc, source, saving, outside>>

\* The encode after the loop, were it to note the format on the processor
\* object as CustomProcessor does with self.format.
FallbackEncode_store_format(kw) ==
    /\ LoopExited
    /\ IF SaveError(image, kw) # None THEN Raise(SaveError(image, kw))
       ELSE \E size \in EncodedSizes :
              /\ Encode(image, kw, size)
              /\ attempts' = Append(attempts, Attempt("fallback", kw, size))
              /\ Return(kw, size, "fallback")
    /\ instances' =
         [id \in DOMAIN instances |->
            IF id = request.preset THEN ("format" :> kw.format)
            ELSE instances[id]]
    /\ UNCHANGED <<proc, cfg, webp, entry, parked, source, saving, outside>>

\* The encode after the loop, returned whatever its size.
FallbackEncode(kw) ==
    /\ LoopExited
    /\ IF SaveError(image, kw) # None THEN Raise(SaveError(image, kw))
       ELSE \E size \in EncodedSizes :
              /\ Encode(image, kw, size)
              /\ attempts' = Append(attempts, Attempt("fallback", kw, size))
              /\ Return(kw, size, "fallback")
    /\ UNCHANGED <<proc, cfg, webp, entry, conc, source, saving, outside>>

(***************************************************************************)
(* BaseProcessor: colour mode, crop and resize.                            *)
(***************************************************************************)
\* _ensure_rgb: an image with alpha is pasted, through its alpha band, on
\* a new white RGB image of the same size; any other mode but RGB goes
\* through convert('RGB'); an RGB image is returned itself.
ensure_rgb(img) ==
    IF img.mode \in {"RGBA", "LA"}
    THEN [img EXCEPT !.mode = "RGB", !.pixels = "on_white"]
    ELSE IF img.mode # "RGB"
    THEN [img EXCEPT !.mode = "RGB", !.pixels = "converted"]
    ELSE img

\* current_ratio > target_ratio for the doubles cw / ch and tw / th: two
\* quotients of integers below 2^13 that differ are more than an ulp apart,
\* so the doubles compare as the fractions do.
RatioGreater(cw, ch, tw, th) == cw * th > tw * ch

\* _smart_crop: the size of the centred crop to the target's aspect ratio.
smart_crop(size, tw, th) ==
    IF RatioGreater(size[1], size[2], tw, th)
    THEN <<IntTimesRatio(size[2], tw, th), size[2]>>
    ELSE <<size[1], IntOverRatio(size[1], tw, th)>>

\* _smart_crop: the box (left, upper, right, lower) handed to Image.crop.
crop_box(size, tw, th) ==
    IF RatioGreater(size[1], size[2], tw, th)
    THEN LET new_width == IntTimesRatio(size[2], tw, th)
             left      == (size[1] - new_width) \div 2
         IN  <<left, 0, left + new_width, size[2]>>
    ELSE LET new_height == IntOverRatio(size[1], tw, th)
             top        == (size[2] - new_height) \div 2
         IN  <<0, top, size[1], top + new_height>>

\* A direct call of _smart_crop(image, target_width, target_height):
\* Image.crop returns an image of the box's width and height.
BaseProcessor_smart_crop ==
    /\ entry = "crop"
    /\ pc = "crop"
    /\ LET box == crop_box(image.size, cfg.target_width, cfg.target_height)
       IN  /\ locals' = [box |-> box]
           /\ image' = [image EXCEPT
                          !.size = <<box[3] - box[1], box[4] - box[2]>>]
    /\ pc' = "cropped"
    /\ UNCHANGED <<proc, cfg, webp, entry, conc, source, format, quality, attempts,
                   known, result, error, saving, api>>

\* Image.resize refuses a target without pixels:
\* ValueError("height and width must be > 0").
ResizeError(size) ==
    IF size[1] < 1 \/ size[2] < 1 THEN "ValueError" ELSE None

\* The call under observation is process(): hand the prepared image to the
\* processor's search.
StartSearch(img, format_type) ==
    /\ image' = img
    /\ format' = format_type
    /\ quality' = quality_start
    /\ attempts' = << >>
    /\ pc' = "loop"
    /\ UNCHANGED <<proc, cfg, webp, entry, conc, source, saving, outside, known, result,
                   error>>

RaiseInProcess(exc) ==
    /\ Raise(exc)
    /\ UNCHANGED <<proc, cfg, webp, entry, conc, source, saving, outside>>

(***************************************************************************)
(* OptimizationUtils.optimize_file_size                                    *)
(***************************************************************************)
optimize_file_size_kwargs(q) ==
    LET kw == [SaveKwargs(cfg.format_type) EXCEPT
                 !.quality = {q}, !.optimize = {TRUE}]
    IN  IF Upper(cfg.format_type) = "JPEG"
        THEN [kw EXCEPT !.progressive = {cfg.progressive}]
        ELSE kw

optimize_file_size_loop ==
    /\ proc = "utils"
    /\ LoopAttempt(optimize_file_size_kwargs(quality))

optimize_file_size_fallback ==
    /\ proc = "utils"
    /\ FallbackEncode(optimize_file_size_kwargs(cfg.quality_min))

(***************************************************************************)
(* InstagramSquareProcessor                                                *)
(***************************************************************************)
Instagram_loop_kwargs(q) ==
    [SaveKwargs(Instagram_FORMAT) EXCEPT
       !.quality = {q}, !.optimize = {TRUE}, !.progressive = {TRUE}]

Instagram_fallback_kwargs ==
    [SaveKwargs(Instagram_FORMAT) EXCEPT
       !.quality = {Instagram_QUALITY_MIN}, !.optimize = {TRUE}]

\* process(): RGB, centred square crop unless already square, resize to the
\* target unless already there, then the search.
Instagram_process ==
    /\ proc = "instagram"
    /\ pc = "process"
    /\ LET rgb     == ensure_rgb(image)
           cropped == IF rgb.size[1] # rgb.size[2]
                      THEN smart_crop(rgb.size, Instagram_TARGET_WIDTH,
                                      Instagram_TARGET_HEIGHT)
                      ELSE rgb.size
           target  == <<Instagram_TARGET_WIDTH, Instagram_TARGET_HEIGHT>>
       IN  IF cropped # target
           THEN StartSearch([rgb EXCEPT !.size = target], None)
           ELSE StartSearch([rgb EXCEPT !.size = cropped], None)

Instagram_optimize_file_size_loop ==
    /\ proc = "instagram"
    /\ LoopAttempt(Instagram_loop_kwargs(quality))

Instagram_optimize_file_size_fallback ==
    /\ proc = "instagram"
    /\ FallbackEncode(Instagram_fallback_kwargs)

(***************************************************************************)
(* WebDisplayProcessor                                                     *)
(***************************************************************************)
Web_kwargs(format_type, q) ==
    LET kw == [SaveKwargs(format_type) EXCEPT
                 !.quality = {q}, !.optimize = {TRUE}]
    IN  IF format_type = "WebP"
        THEN [kw EXCEPT !.method = {Web_METHOD}, !.lossless = {FALSE}]
        ELSE IF format_type = "JPEG"
        THEN [kw EXCEPT !.progressive = {TRUE}]
        ELSE kw

\* process() runs the first search inside try ... except (OSError,
\* NotImplementedError) and answers the exception with a second search in
\* the fallback format.
Web_in_try == entry # "search" /\ format = Web_PRIMARY_FORMAT

Web_except(kw) ==
    /\ proc = "web"
    /\ pc = "loop" \/ LoopExited
    /\ Web_in_try
    /\ SaveError(image, kw) # None
    /\ format' = Web_FALLBACK_FORMAT
    /\ quality' = Web_QUALITY_START
    /\ attempts' = << >>
    /\ pc' = "loop"
    /\ UNCHANGED <<proc, cfg, webp, entry, conc, source, saving, outside, image, known, result,
                   error>>

\* _resize_to_width: narrower images pass through, wider ones are scaled
\* to the target width with height int(target_width * (height / width)).
Web_resize_to_width(size, target_width) ==
    IF size[1] <= target_width THEN size
    ELSE <<target_width, IntTimesRatio(target_width, size[2], size[1])>>

Web_process ==
    /\ proc = "web"
    /\ pc = "process"
    /\ LET rgb  == ensure_rgb(image)
           size == Web_resize_to_width(rgb.size, Web_TARGET_WIDTH)
       IN  IF ResizeError(size) # None
           THEN RaiseInProcess(ResizeError(size))
           ELSE StartSearch([rgb EXCEPT !.size = size], Web_PRIMARY_FORMAT)

Web_optimize_for_web_loop ==
    /\ proc = "web"
    /\ quality >= quality_min
    /\ \/ Web_except(Web_kwargs(format, quality))
       \/ /\ ~(Web_in_try /\ SaveError(image, Web_kwargs(format, quality)) # None)
          /\ LoopAttempt(Web_kwargs(format, quality))

Web_optimize_for_web_fallback ==
    /\ proc = "web"
    /\ LoopExited
    /\ IF Web_in_try /\ SaveError(image, Web_kwargs(format, Web_QUALITY_MIN)) # None
       THEN Web_except(Web_kwargs(format, Web_QUALITY_MIN))
       ELSE FallbackEncode(Web_kwargs(format, Web_QUALITY_MIN))

(***************************************************************************)
(* EmailNewsletterProcessor                                                *)
(***************************************************************************)
Email_kwargs(q) ==
    [SaveKwargs(Email_FORMAT) EXCEPT
       !.quality = {q}, !.optimize = {TRUE}, !.progressive = {FALSE}]

Email_resize_to_width(size, target_width) ==
    IF size[1] <= target_width THEN size
    ELSE <<target_width, IntTimesRatio(target_width, size[2], size[1])>>

\* process() begins with self._fix_orientation_and_ensure_rgb(image), a
\* method neither EmailNewsletterProcessor nor BaseProcessor defines: the
\* attribute lookup raises before anything else runs.
Email_process ==
    /\ proc = "email"
    /\ pc = "process"
    /\ RaiseInProcess("AttributeError")

Email_optimize_for_email_loop ==
    /\ proc = "email"
    /\ LoopAttempt(Email_kwargs(quality))

Email_optimize_for_email_fallback ==
    /\ proc = "email"
    /\ FallbackEncode(Email_kwargs(Email_QUALITY_MIN))

(***************************************************************************)
(* CustomProcessor                                                         *)
(***************************************************************************)
\* The loop's save_kwargs; `format` is self.format.
Custom_loop_kwargs(q) ==
    LET kw == [SaveKwargs(format) EXCEPT !.optimize = {TRUE}]
    IN  CASE format = "JPEG" ->
               [kw EXCEPT !.quality = {q},
                          !.progressive = {Custom_progressive}]
          [] format = "WebP" ->
               [kw EXCEPT !.quality = {q}, !.method = {Custom_webp_method},
                          !.lossless = {FALSE}]
          [] format = "PNG" ->
               [kw EXCEPT !.compress_level = {Custom_PNG_COMPRESS_LEVEL}]
          [] OTHER -> kw

Custom_fallback_kwargs ==
    LET kw == [SaveKwargs(format) EXCEPT !.optimize = {TRUE}]
    IN  CASE format = "JPEG" ->
               [kw EXCEPT !.quality = Custom_quality_min,
                          !.progressive = {FALSE}]
          [] format = "WebP" ->
               [kw EXCEPT !.quality = Custom_quality_min,
                          !.method = {Custom_FALLBACK_METHOD},
                          !.lossless = {FALSE}]
          [] format = "PNG" ->
               [kw EXCEPT !.compress_level = {Custom_PNG_COMPRESS_LEVEL}]
          [] OTHER -> kw

\* `if x:` for an optional int: passed and not zero.
Truthy(opt) == opt # {} /\ The(opt) # 0

\* _validate_requirements, for a processor built from arguments c: the
\* exception __init__ raises, or None.
Custom_validate_requirements(c) ==
    IF /\ c.strategy = "quality"
       /\ c.max_size_kb < 512
       /\ Upper(c.format) \in {"JPEG", "WebP"}
    THEN "ValueError"
    ELSE IF /\ Upper(c.format) = "PNG"
            /\ c.max_size_kb < 1024
            /\ Truthy(c.width) /\ Truthy(c.height)
            /\ The(c.width) * The(c.height) * 3 > c.max_size_kb * 1024
    THEN "ValueError"
    ELSE None

\* abs(target_ratio - current_ratio) against 0.1, as fractions: 1 when
\* the difference is larger, -1 when it is smaller, 0 when it is exactly
\* 1/10 and the rounding of the three doubles decides.
Custom_ratio_gap(size, tw, th) ==
    LET d    == tw * size[2] - size[1] * th
        lhs  == 10 * (IF d < 0 THEN -d ELSE d)
        rhs  == th * size[2]
    IN  IF lhs > rhs THEN 1 ELSE IF lhs < rhs THEN -1 ELSE 0

Ok(size) == [error |-> None, size |-> size]

Failed(exc, size) == [error |-> exc, size |-> size]

\* The second half of _process_dimensions: what the target width and
\* height do to an image of the given size.  A crop that leaves no pixels
\* is resized by Pillow either to an image of the target size or not at
\* all, depending on the build.
Custom_apply_target(size) ==
    LET tw == cfg.width
        th == cfg.height
    IN  IF Truthy(tw) /\ Truthy(th)
        THEN LET target == <<The(tw), The(th)>>
                 gap    == Custom_ratio_gap(size, The(tw), The(th))
                 crop   == smart_crop(size, The(tw), The(th))
             IN  IF size = target THEN {Ok(size)}
                 ELSE IF gap < 0 \/ ResizeError(crop) = None
                 THEN {Ok(target)}
                 ELSE {Ok(target), Failed("ValueError", crop)}
        ELSE IF Truthy(tw) /\ ~Truthy(th)
        THEN LET new == <<The(tw), IntTimesRatio(The(tw), size[2], size[1])>>
             IN  IF ResizeError(new) # None
                 THEN {Failed(ResizeError(new), new)} ELSE {Ok(new)}
        ELSE IF Truthy(th) /\ ~Truthy(tw)
        THEN LET new == <<IntTimesRatio(The(th), size[1], size[2]), The(th)>>
             IN  IF ResizeError(new) # None
                 THEN {Failed(ResizeError(new), new)} ELSE {Ok(new)}
        ELSE {Ok(size)}

\* _process_dimensions: first the max_dimension constraint, each side
\* scaled by the double max_dimension / max_side and truncated, then the
\* target width and height.
Custom_process_dimensions(size) ==
    LET max_side == IF size[1] > size[2] THEN size[1] ELSE size[2]
        scaled   ==
            IF Truthy(cfg.max_dimension) /\ max_side > The(cfg.max_dimension)
            THEN <<IntTimesRatio(size[1], The(cfg.max_dimension), max_side),
                   IntTimesRatio(size[2], The(cfg.max_dimension), max_side)>>
            ELSE size
    IN  IF ResizeError(scaled) # None
        THEN {Failed(ResizeError(scaled), scaled)}
        ELSE Custom_apply_target(scaled)

\* process(): RGB for JPEG only, the dimensions, then the search.
Custom_process ==
    /\ proc = "custom"
    /\ pc = "process"
    /\ LET img == IF format = "PNG" \/ format = "WEBP" THEN image
                  ELSE ensure_rgb(image)
       IN  \E o \in Custom_process_dimensions(img.size) :
             IF o.error # None THEN RaiseInProcess(o.error)
             ELSE StartSearch([img EXCEPT !.size = o.size], format)

Custom_optimize_for_custom_size_loop ==
    /\ proc = "custom"
    /\ pc = "loop"
    /\ quality >= quality_min
    /\ LET kw  == Custom_loop_kwargs(quality)
           exc == SaveError(image, kw)
       IN  IF exc # None
           THEN IF format = "WebP"
                THEN /\ format' = "JPEG"
                     /\ UNCHANGED <<quality, pc, image, known, attempts,
                                    result, error>>
                ELSE Raise(exc)
           ELSE \E size \in EncodedSizes :
                  /\ Encode(image, kw, size)
                  /\ attempts' = Append(attempts, Attempt("loop", kw, size))
                  /\ IF size <= max_size_bytes
                     THEN Return(kw, size, "accepted")
                     ELSE IF format = "PNG"
                     THEN /\ pc' = "fallback"
                          /\ UNCHANGED <<quality, image, result, error,
                                         format>>
                     ELSE /\ quality' = quality - quality_step
                          /\ UNCHANGED <<pc, image, result, error, format>>
    /\ UNCHANGED <<proc, cfg, webp, entry, conc, source, saving, outside>>

Custom_optimize_for_custom_size_fallback ==
    /\ proc = "custom"
    /\ FallbackEncode(Custom_fallback_kwargs)

(***************************************************************************)
(* JurySubmissionProcessor                                                 *)
(***************************************************************************)
Jury_kwargs(q) ==
    [SaveKwargs(Jury_FORMAT) EXCEPT
       !.quality = {q}, !.optimize = {TRUE}, !.dpi = {Jury_DPI}]

\* _resize_to_max_dimension: images within the bound pass through, larger
\* ones are scaled by the double max_dimension / longest_side, each side
\* truncated.
Jury_resize_to_max_dimension(size, max_dimension) ==
    LET longest_side == IF size[1] > size[2] THEN size[1] ELSE size[2]
    IN  IF longest_side <= max_dimension THEN size
        ELSE <<IntTimesRatio(size[1], max_dimension, longest_side),
               IntTimesRatio(size[2], max_dimension, longest_side)>>

Jury_process ==
    /\ proc = "jury"
    /\ pc = "process"
    /\ LET rgb  == ensure_rgb(image)
           size == Jury_resize_to_max_dimension(rgb.size,
                                                Jury_TARGET_MAX_DIMENSION)
       IN  IF ResizeError(size) # None
           THEN RaiseInProcess(ResizeError(size))
           ELSE StartSearch([rgb EXCEPT !.size = size], None)

\* Jury_optimize_for_jury_size_loop returning an encoding below the
\* minimum at whatever quality it appears.
Jury_optimize_for_jury_size_loop_accept_small ==
    /\ proc = "jury"
    /\ pc = "loop"
    /\ quality >= quality_min
    /\ LET kw  == Jury_kwargs(quality)
           exc == SaveError(image, kw)
       IN  IF exc # None THEN Raise(exc)
           ELSE \E size \in EncodedSizes :
                  /\ Encode(image, kw, size)
                  /\ attempts' = Append(attempts, Attempt("loop", kw, size))
                  /\ IF size <= max_size_bytes
                     THEN Return(kw, size, "accepted")
                     ELSE /\ quality' = quality - quality_step
                          /\ UNCHANGED <<pc, image, result, error, format>>
    /\ UNCHANGED <<proc, cfg, webp, entry, conc, source, saving, outside>>

Jury_optimize_for_jury_size_loop ==
    /\ proc = "jury"
    /\ pc = "loop"
    /\ quality >= quality_min
    /\ LET kw  == Jury_kwargs(quality)
           exc == SaveError(image, kw)
       IN  IF exc # None THEN Raise(exc)
           ELSE \E size \in EncodedSizes :
                  /\ Encode(image, kw, size)
                  /\ attempts' = Append(attempts, Attempt("loop", kw, size))
                  /\ IF min_size_bytes <= size /\ size <= max_size_bytes
                     THEN Return(kw, size, "accepted")
                     ELSE IF size < min_size_bytes
                             /\ quality = Jury_QUALITY_START
                     THEN Return(kw, size, "accepted")
                     ELSE IF size > max_size_bytes
                     THEN /\ quality' = quality - quality_step
                          /\ UNCHANGED <<pc, image, result, error, format>>
                     ELSE /\ pc' = "fallback"
                          /\ UNCHANGED <<quality, image, result, error,
                                         format>>
    /\ UNCHANGED <<proc, cfg, webp, entry, conc, source, saving, outside>>

\* The encode after the loop made at the floor whatever the loop ended at.
Jury_optimize_for_jury_size_fallback_at_floor ==
    /\ proc = "jury"
    /\ FallbackEncode(Jury_kwargs(Jury_QUALITY_MIN))

Jury_optimize_for_jury_size_fallback ==
    /\ proc = "jury"
    /\ FallbackEncode(Jury_kwargs(IF quality > Jury_QUALITY_MIN THEN quality
                                  ELSE Jury_QUALITY_MIN))

(***************************************************************************)
(* QuickCompressProcessor.  The target is the double                       *)
(*     target_size = original_size * (1 - 70 / 100)                        *)
(* and 1 - 70 / 100 is the double next above 0.3, so target_size lies      *)
(* above 3/10 of original_size by less than one part in 2^51.  A byte      *)
(* count is a whole number: it compares with target_size * 1.1, * 1.2 and  *)
(* * 1.5 as it does with 33, 36 and 45 hundredths of original_size, the    *)
(* double counting as the larger when the two are equal.                   *)
(***************************************************************************)
Compress_kwargs(q) ==
    [SaveKwargs(Compress_FORMAT) EXCEPT
       !.quality = {q}, !.optimize = {TRUE}, !.progressive = {q > 60}]

\* _estimate_file_size: the arguments of its save.
Compress_estimate_kwargs ==
    [SaveKwargs(Compress_FORMAT) EXCEPT
       !.quality = {Compress_ESTIMATE_QUALITY}, !.optimize = {TRUE}]

\* current_size <= target_size * 1.1.
Compress_within_tolerance(size, original) ==
    1000 * size <= 11 * (100 - Compress_TARGET_REDUCTION_PERCENT) * original

\* current_size > target_size * 1.5.
Compress_way_over(size, original) ==
    1000 * size > 15 * (100 - Compress_TARGET_REDUCTION_PERCENT) * original

\* current_size > target_size * 1.2.
Compress_over(size, original) ==
    1000 * size > 12 * (100 - Compress_TARGET_REDUCTION_PERCENT) * original

\* abs(current_size - target_size), in units that keep the order: forty
\* times the distance from 3/10 of the original, less one when the size is
\* above it (target_size is then a little nearer) and plus one otherwise.
Compress_size_diff(size, original) ==
    LET below == (100 - Compress_TARGET_REDUCTION_PERCENT) * original
        above == 100 * size
    IN  IF above > below THEN 4 * (above - below) - 1
        ELSE 4 * (below - above) + 1

\* Every encoding counted as closer than the ones before it.
Compress_is_closer_latest(size, best_size, original) == TRUE

\* size_diff < best_size_diff; best_size is {} while best_size_diff is
\* still float('inf').
Compress_is_closer(size, best_size, original) ==
    \/ best_size = {}
    \/ Compress_size_diff(size, original)
         < Compress_size_diff(The(best_size), original)

\* The step the loop lowers the quality by.
Compress_quality_step(size, original) ==
    IF Compress_way_over(size, original) THEN 10
    ELSE IF Compress_over(size, original) THEN 7
    ELSE 3

\* process(): _ensure_rgb, then _estimate_file_size; the locals of
\* _compress_to_target_size start from the estimate.
Compress_process ==
    /\ proc = "compress"
    /\ pc = "process"
    /\ LET rgb == ensure_rgb(image)
           kw  == Compress_estimate_kwargs
       IN  IF SaveError(rgb, kw) # None
           THEN /\ Raise(SaveError(rgb, kw))
                /\ UNCHANGED locals
           ELSE \E size \in {OriginalSize} :
                  /\ Encode(rgb, kw, size)
                  /\ image' = rgb
                  /\ format' = Compress_FORMAT
                  /\ quality' = Compress_QUALITY_START
                  /\ locals' = [original_size |-> size,
                                best_quality |-> Compress_QUALITY_START,
                                best_size |-> {},
                                iterations |-> 0]
                  /\ attempts' = << >>
                  /\ pc' = "loop"
                  /\ UNCHANGED <<result, error>>
    /\ UNCHANGED <<proc, cfg, webp, entry, conc, source, saving, api>>

\* The loop of _compress_to_target_size has been left: its condition
\* failed or it executed `break`.
Compress_loop_exited ==
    \/ pc = "fallback"
    \/ /\ pc = "loop"
       /\ \/ quality < Compress_QUALITY_MIN
          \/ locals.iterations >= Compress_MAX_ITERATIONS

\* One pass of the loop.  A direct call of _compress_to_target_size keeps
\* the history of its encodings.  The qualities tried only go down, so of the
\* encodings made in the loop only the one at best_quality is made again
\* (by the final save): `known` keeps that one and the estimate.  While a
\* second request waits, which may encode the same image, `known` keeps
\* every encoding.
Compress_compress_to_target_size_loop ==
    /\ proc = "compress"
    /\ pc = "loop"
    /\ ~Compress_loop_exited
    /\ LET kw       == Compress_kwargs(quality)
           original == locals.original_size
           estimate == CodecKey(image, Compress_estimate_kwargs)
       IN  IF SaveError(image, kw) # None
           THEN /\ Raise(SaveError(image, kw))
                /\ UNCHANGED locals
           ELSE \E size \in Compress_search_sizes(original) :
                  LET closer == Compress_is_closer(size, locals.best_size,
                                                   original)
                      within == Compress_within_tolerance(size, original)
                  IN  /\ CodecKey(image, kw) \in DOMAIN known
                           => size = known[CodecKey(image, kw)]
                      /\ locals' =
                           [locals EXCEPT
                              !.best_quality =
                                 IF closer \/ within THEN quality ELSE @,
                              !.best_size = IF closer THEN {size} ELSE @,
                              !.iterations = IF within THEN @ ELSE @ + 1]
                      /\ known' =
                           IF parked.id # 0
                           THEN (CodecKey(image, kw) :> size) @@ known
                           ELSE IF closer \/ within
                           THEN (CodecKey(image, kw) :> size)
                                  @@ (estimate :> known[estimate])
                           ELSE known
                      /\ IF within
                         THEN pc' = "fallback" /\ UNCHANGED quality
                         ELSE /\ quality' =
                                   quality
                                     - Compress_quality_step(size, original)
                              /\ UNCHANGED pc
                      /\ attempts' =
                           IF entry = "descent"
                           THEN Append(attempts, Attempt("loop", kw, size))
                           ELSE attempts
                      /\ UNCHANGED <<image, result, error, format>>
    /\ UNCHANGED <<proc, cfg, webp, entry, conc, source, saving, api>>

\* The save after the loop, at best_quality; the result is the accepting
\* one when the loop was left by `break`.
Compress_compress_to_target_size_final ==
    /\ proc = "compress"
    /\ pc \in {"loop", "fallback"}
    /\ Compress_loop_exited
    /\ LET kw == Compress_kwargs(locals.best_quality)
       IN  IF SaveError(image, kw) # None THEN Raise(SaveError(image, kw))
           ELSE \E size \in Compress_search_sizes(locals.original_size) :
                  /\ Encode(image, kw, size)
                  /\ Return(kw, size, IF pc = "fallback" THEN "accepted"
                                      ELSE "fallback")
                  /\ UNCHANGED attempts
    /\ UNCHANGED <<proc, cfg, webp, entry, conc, source, saving, outside>>

(***************************************************************************)
(* save_optimized: a second quality descent on test buffers, the save to   *)
(* output_path at the quality it settled on, and the metadata mapping.     *)
(***************************************************************************)
\* The image save_optimized was handed: the caller's own, or in a request
\* the image process() returned.
SaveImage == IF entry = "save" THEN source ELSE result.image

\* The test loop has been left: its condition failed or it executed `break`.
TestExited == pc = "save_final" \/ (pc = "save_loop" /\ quality < quality_min)

\* What save_optimized leaves alone.
save_frame ==
    <<proc, cfg, webp, entry, conc, source, image, attempts, result, output_path,
      image_data, response, outside>>

\* A decimal number: digits / 10^places.
Decimal(digits, places) == [digits |-> digits, places |-> places]

\* n / d rounded to the nearest integer, halves to the even one.
RoundHalfEven(n, d) ==
    LET q == n \div d
        r == n % d
    IN  IF 2 * r < d THEN q
        ELSE IF 2 * r > d THEN q + 1
        ELSE IF q % 2 = 0 THEN q ELSE q + 1

\* round(file_size / (1024 * 1024), 2): the quotient is an exact double,
\* and round() rounds its exact value, halves to even.
FileSizeMb(file_size) ==
    Decimal(RoundHalfEven(file_size * 100, 1024 * 1024), 2)

\* round(file_size / 1024, 1).
FileSizeKb(file_size) == Decimal(RoundHalfEven(file_size * 10, 1024), 1)

\* f'{a / b:.1f}': the double a / b printed to one place.  Only when the
\* quotient lies exactly between two tenths can the rounding of the double
\* matter: it then decides the digit, and an exact double goes to even.
FormatTenths(a, b) ==
    LET q == (10 * a) \div b
        r == (10 * a) % b
        s == FloatDiv(a, b)
    IN  Decimal(IF 2 * r < b THEN q
                ELSE IF 2 * r > b THEN q + 1
                ELSE IF s.rem = 0 THEN (IF q % 2 = 0 THEN q ELSE q + 1)
                ELSE IF 2 * s.rem > s.d0 THEN q + 1
                ELSE q, 1)

\* The separators written between width and height.
MultiplicationSign == "U+00D7"

EmailSeparator == "U+00C3 U+2014"

\* f'{image.size[0]}<sep>{image.size[1]}'.
Dimensions(img, sep) == <<img.size[1], sep, img.size[2]>>

\* Web's compression_ratio: '1.0x' at the target width, else the width
\* over the target width to one place.
Web_compression_ratio(img) ==
    IF img.size[1] # Web_TARGET_WIDTH
    THEN FormatTenths(img.size[1], Web_TARGET_WIDTH)
    ELSE Decimal(10, 1)

\* The mapping save_optimized returns, by processor: path and format_type
\* are where and as what the file was written, file_size is
\* os.path.getsize(output_path).
utils_metadata(path, file_size) ==
    [file_path |-> path,
     file_size_bytes |-> file_size,
     file_size_mb |-> FileSizeMb(file_size),
     quality |-> The(final_quality),
     dimensions |-> Dimensions(SaveImage, MultiplicationSign),
     format |-> cfg.format_type]

Instagram_metadata(path, file_size) ==
    [file_path |-> path,
     file_size_bytes |-> file_size,
     file_size_mb |-> FileSizeMb(file_size),
     quality |-> The(final_quality),
     dimensions |-> Dimensions(SaveImage, MultiplicationSign),
     format |-> Instagram_FORMAT]

Web_metadata(path, format_type, file_size) ==
    [file_path |-> path,
     file_size_bytes |-> file_size,
     file_size_kb |-> FileSizeKb(file_size),
     quality |-> The(final_quality),
     dimensions |-> Dimensions(SaveImage, MultiplicationSign),
     format |-> format_type,
     meets_size_requirement |-> (file_size <= Web_MAX_FILE_SIZE_KB * 1024),
     compression_ratio |-> Web_compression_ratio(SaveImage)]

Email_metadata(path, file_size) ==
    [file_path |-> path,
     file_size_bytes |-> file_size,
     file_size_kb |-> FileSizeKb(file_size),
     quality |-> The(final_quality),
     dimensions |-> Dimensions(SaveImage, EmailSeparator),
     format |-> Email_FORMAT,
     meets_email_requirements |-> (file_size <= max_size_bytes),
     email_friendly |-> TRUE,
     mobile_optimized |-> (SaveImage.size[1] <= Email_TARGET_WIDTH)]

Jury_metadata(path, file_size) ==
    [file_path |-> path,
     file_size_bytes |-> file_size,
     file_size_mb |-> FileSizeMb(file_size),
     quality |-> The(final_quality),
     dimensions |-> Dimensions(SaveImage, MultiplicationSign),
     format |-> Jury_FORMAT,
     dpi |-> Jury_DPI,
     meets_jury_requirements |->
         (min_size_bytes <= file_size /\ file_size <= max_size_bytes)]

\* quality is added only `if self.format in ['JPEG', 'WebP'] and
\* final_quality`.
Custom_metadata(path, file_size) ==
    LET md == [file_path |-> path,
               file_size_bytes |-> file_size,
               file_size_mb |-> FileSizeMb(file_size),
               dimensions |-> Dimensions(SaveImage, MultiplicationSign),
               format |-> format,
               meets_size_requirement |-> (file_size <= max_size_bytes),
               custom_width |-> cfg.width,
               custom_height |-> cfg.height,
               max_size_mb |-> [kb |-> cfg.max_size_kb]]
    IN  IF format \in {"JPEG", "WebP"} /\ Truthy(final_quality)
        THEN md @@ ("quality" :> The(final_quality))
        ELSE md

\* The estimate save_optimized starts with.
Compress_save_estimate == CodecKey(SaveImage, Compress_estimate_kwargs)

\* (1 - size / original) * 100 >= TARGET_REDUCTION_PERCENT * tenths / 10:
\* the product on the right is the whole double 63.0 or 56.0, and the
\* double on the left is at least it exactly when the fraction is.
Compress_reduced_by(size, original, tenths) ==
    1000 * size
      <= (1000 - tenths * Compress_TARGET_REDUCTION_PERCENT) * original

\* f'{actual_reduction:.1f}': the reduction in percent to one place.  With
\* an original of 1000 or 1001 bytes no reduction lies halfway between two
\* tenths, so the digit is that of the exact quotient.
Compress_actual_reduction(size, original) ==
    Decimal(RoundHalfEven(1000 * (original - size), original), 1)

Compress_metadata(path, file_size) ==
    LET original_size_estimate == known[Compress_save_estimate]
    IN  [file_path |-> path,
         file_size_bytes |-> file_size,
         file_size_mb |-> FileSizeMb(file_size),
         original_size_estimate |-> original_size_estimate,
         original_size_mb |-> FileSizeMb(original_size_estimate),
         quality |-> The(final_quality),
         dimensions |-> Dimensions(SaveImage, EmailSeparator),
         format |-> Compress_FORMAT,
         compression_ratio |->
           Compress_actual_reduction(file_size, original_size_estimate),
         target_achieved |->
           Compress_reduced_by(file_size, original_size_estimate, 8),
         size_reduction |-> original_size_estimate - file_size]

Metadata(path, format_type, file_size) ==
    CASE proc = "utils"     -> utils_metadata(path, file_size)
      [] proc = "instagram" -> Instagram_metadata(path, file_size)
      [] proc = "jury"      -> Jury_metadata(path, file_size)
      [] proc = "web"       -> Web_metadata(path, format_type, file_size)
      [] proc = "email"     -> Email_metadata(path, file_size)
      [] proc = "custom"    -> Custom_metadata(path, file_size)
      [] proc = "compress"  -> Compress_metadata(path, file_size)

\* An exception leaves save_optimized.
RaiseInSave(exc) ==
    /\ error' = exc
    /\ pc' = "raised"
    /\ UNCHANGED <<quality, final_quality, known>>

\* `if file_size <= max_size_bytes: final_quality = quality; break`, else
\* `quality -= step`.
KeepOrLower(size) ==
    IF size <= max_size_bytes
    THEN /\ final_quality' = {quality}
         /\ pc' = "save_final"
         /\ UNCHANGED quality
    ELSE /\ quality' = quality - quality_step
         /\ UNCHANGED <<pc, final_quality>>

\* One pass of a ceiling test loop: save to a buffer at the current
\* quality; if it fits, keep the quality and break, else lower it.
TestSave(kw) ==
    /\ pc = "save_loop"
    /\ quality >= quality_min
    /\ IF SaveError(SaveImage, kw) # None
       THEN RaiseInSave(SaveError(SaveImage, kw))
       ELSE \E size \in EncodedSizes :
              /\ Encode(SaveImage, kw, size)
              /\ KeepOrLower(size)
              /\ UNCHANGED error
    /\ UNCHANGED <<save_frame, format, file, metadata>>

\* image.save(path, **kw), os.path.getsize and the return of the metadata.
FinalSave(path, kw) ==
    IF SaveError(SaveImage, kw) # None
    THEN /\ error' = SaveError(SaveImage, kw)
         /\ pc' = "raised"
         /\ UNCHANGED <<known, file, metadata>>
    ELSE \E size \in EncodedSizes :
           /\ Encode(SaveImage, kw, size)
           /\ file' = [path |-> path, kwargs |-> kw, size |-> size]
           /\ metadata' = Metadata(path, kw.format, size)
           /\ pc' = "saved"
           /\ UNCHANGED error

\* The save after the test loop, for the processors that make it
\* unguarded.
SaveAfterTests(kw) ==
    /\ TestExited
    /\ FinalSave(output_path, kw)
    /\ UNCHANGED <<save_frame, format, quality, final_quality>>

(***************************************************************************)
(* OptimizationUtils.save_optimized_with_metadata                          *)
(***************************************************************************)
save_optimized_with_metadata_test ==
    /\ proc = "utils"
    /\ TestSave(optimize_file_size_kwargs(quality))

save_optimized_with_metadata_save ==
    /\ proc = "utils"
    /\ SaveAfterTests(optimize_file_size_kwargs(The(final_quality)))

\* get_standard_compression_params(format_type, quality, progressive).
get_standard_compression_params(format_type, q, progressive) ==
    LET params == [SaveKwargs(format_type) EXCEPT
                     !.quality = {q}, !.optimize = {TRUE}]
    IN  CASE Upper(format_type) = "JPEG" ->
               [params EXCEPT !.progressive = {progressive}]
          [] Upper(format_type) = "PNG" ->
               [params EXCEPT !.compress_level = {6}]
          [] Upper(format_type) = "WEBP" ->
               [params EXCEPT !.method = {6}]
          [] OTHER -> params

(***************************************************************************)
(* InstagramSquareProcessor.save_optimized, get_compression_params         *)
(***************************************************************************)
\* The test saves are not progressive; the final save is.
Instagram_test_kwargs(q) ==
    [SaveKwargs(Instagram_FORMAT) EXCEPT
       !.quality = {q}, !.optimize = {TRUE}]

Instagram_save_optimized_test ==
    /\ proc = "instagram"
    /\ TestSave(Instagram_test_kwargs(quality))

Instagram_save_optimized_save ==
    /\ proc = "instagram"
    /\ SaveAfterTests(Instagram_loop_kwargs(The(final_quality)))

Instagram_get_compression_params(q) ==
    [SaveKwargs(Instagram_FORMAT) EXCEPT
       !.quality = {q}, !.optimize = {TRUE}, !.progressive = {TRUE}]

(***************************************************************************)
(* EmailNewsletterProcessor.save_optimized, get_compression_params         *)
(***************************************************************************)
Email_save_optimized_test ==
    /\ proc = "email"
    /\ TestSave(Email_kwargs(quality))

Email_save_optimized_save ==
    /\ proc = "email"
    /\ SaveAfterTests(Email_kwargs(The(final_quality)))

Email_get_compression_params(q) ==
    [SaveKwargs(Email_FORMAT) EXCEPT
       !.quality = {q}, !.optimize = {TRUE}, !.progressive = {FALSE}]

(***************************************************************************)
(* JurySubmissionProcessor.save_optimized, get_compression_params          *)
(***************************************************************************)
\* The test loop keeps the first quality whose size is not above the
\* maximum, whether or not it reaches the minimum.
Jury_save_optimized_test ==
    /\ proc = "jury"
    /\ pc = "save_loop"
    /\ quality >= quality_min
    /\ LET kw == Jury_kwargs(quality)
       IN  IF SaveError(SaveImage, kw) # None
           THEN /\ error' = SaveError(SaveImage, kw)
                /\ pc' = "raised"
                /\ UNCHANGED <<quality, final_quality, known>>
           ELSE \E size \in EncodedSizes :
                  /\ Encode(SaveImage, kw, size)
                  /\ IF min_size_bytes <= size /\ size <= max_size_bytes
                     THEN /\ final_quality' = {quality}
                          /\ pc' = "save_final"
                          /\ UNCHANGED quality
                     ELSE IF size > max_size_bytes
                     THEN /\ quality' = quality - Jury_QUALITY_STEP
                          /\ UNCHANGED <<pc, final_quality>>
                     ELSE /\ final_quality' = {quality}
                          /\ pc' = "save_final"
                          /\ UNCHANGED quality
                  /\ UNCHANGED error
    /\ UNCHANGED <<save_frame, format, file, metadata>>

Jury_save_optimized_save ==
    /\ proc = "jury"
    /\ SaveAfterTests(Jury_kwargs(The(final_quality)))

Jury_get_compression_params(q) ==
    [SaveKwargs(Jury_FORMAT) EXCEPT
       !.quality = {q}, !.optimize = {TRUE}, !.dpi = {Jury_DPI}]

(***************************************************************************)
(* WebDisplayProcessor.save_optimized                                      *)
(***************************************************************************)
\* What `except (OSError, NotImplementedError)` catches.
Caught(exc) == exc \in {"OSError", "NotImplementedError"}

\* format_type is the fallback format for a .jpg or .jpeg path, else the
\* primary one.
Web_save_format(path) ==
    IF path \in {".jpg", ".jpeg"} THEN Web_FALLBACK_FORMAT
    ELSE Web_PRIMARY_FORMAT

\* The test loop saves inside try: a failing WebP save switches the format
\* to JPEG for good and repeats the save in the handler.
Web_save_optimized_test ==
    /\ proc = "web"
    /\ pc = "save_loop"
    /\ quality >= quality_min
    /\ LET kw  == Web_kwargs(format, quality)
           fb  == Web_kwargs(Web_FALLBACK_FORMAT, quality)
           exc == SaveError(SaveImage, kw)
       IN  IF exc = None
           THEN \E size \in EncodedSizes :
                  /\ Encode(SaveImage, kw, size)
                  /\ KeepOrLower(size)
                  /\ UNCHANGED <<error, format>>
           ELSE IF Caught(exc) /\ format = "WebP"
           THEN /\ format' = Web_FALLBACK_FORMAT
                /\ IF SaveError(SaveImage, fb) # None
                   THEN RaiseInSave(SaveError(SaveImage, fb))
                   ELSE \E size \in EncodedSizes :
                          /\ Encode(SaveImage, fb, size)
                          /\ KeepOrLower(size)
                          /\ UNCHANGED error
           ELSE RaiseInSave(exc) /\ UNCHANGED format
    /\ UNCHANGED <<save_frame, file, metadata>>

\* The final save is guarded too: on failure the file is written as JPEG
\* next to the requested path.
Web_save_optimized_save ==
    /\ proc = "web"
    /\ TestExited
    /\ LET kw == Web_kwargs(format, The(final_quality))
           fb == Web_kwargs(Web_FALLBACK_FORMAT, The(final_quality))
       IN  IF Caught(SaveError(SaveImage, kw))
           THEN FinalSave(".jpg", fb)
           ELSE FinalSave(output_path, kw)
    /\ UNCHANGED <<save_frame, format, quality, final_quality>>

(***************************************************************************)
(* CustomProcessor.save_optimized, get_compression_params                  *)
(***************************************************************************)
Custom_test_kwargs(q) ==
    LET kw == [SaveKwargs(format) EXCEPT !.optimize = {TRUE}]
    IN  CASE format = "JPEG" ->
               [kw EXCEPT !.quality = {q}, !.progressive = {q > 80}]
          [] format = "WebP" ->
               [kw EXCEPT !.quality = {q}, !.method = {6},
                          !.lossless = {FALSE}]
          [] format = "PNG" ->
               [kw EXCEPT !.compress_level = {Custom_PNG_COMPRESS_LEVEL}]
          [] OTHER -> kw

\* `final_quality or self.quality_min`.
Custom_final_quality ==
    IF Truthy(final_quality) THEN final_quality ELSE Custom_quality_min

Custom_final_kwargs ==
    LET kw == [SaveKwargs(format) EXCEPT !.optimize = {TRUE}]
    IN  CASE format = "JPEG" ->
               [kw EXCEPT !.quality = Custom_final_quality,
                          !.progressive = {Custom_progressive}]
          [] format = "WebP" ->
               [kw EXCEPT !.quality = Custom_final_quality,
                          !.method = {Custom_webp_method},
                          !.lossless = {FALSE}]
          [] format = "PNG" ->
               [kw EXCEPT !.compress_level = {Custom_PNG_COMPRESS_LEVEL}]
          [] OTHER -> kw

\* The test loop: PNG is tried once (its quality is None); a failing save
\* ends the loop unless the format is 'WebP', which becomes JPEG.
Custom_save_optimized_test ==
    /\ proc = "custom"
    /\ pc = "save_loop"
    /\ quality >= quality_min
    /\ LET kw  == Custom_test_kwargs(quality)
           exc == SaveError(SaveImage, kw)
       IN  IF exc = None
           THEN \E size \in EncodedSizes :
                  /\ Encode(SaveImage, kw, size)
                  /\ IF size <= max_size_bytes
                     THEN /\ final_quality' =
                               (IF format = "PNG" THEN {} ELSE {quality})
                          /\ pc' = "save_final"
                          /\ UNCHANGED quality
                     ELSE IF format = "PNG"
                     THEN /\ pc' = "save_final"
                          /\ UNCHANGED <<quality, final_quality>>
                     ELSE /\ quality' = quality - Custom_QUALITY_STEP
                          /\ UNCHANGED <<pc, final_quality>>
                  /\ UNCHANGED <<error, format>>
           ELSE IF Caught(exc)
           THEN /\ IF format = "WebP"
                   THEN format' = "JPEG" /\ UNCHANGED pc
                   ELSE pc' = "save_final" /\ UNCHANGED format
                /\ UNCHANGED <<quality, final_quality, known, error>>
           ELSE RaiseInSave(exc) /\ UNCHANGED format
    /\ UNCHANGED <<save_frame, file, metadata>>

Custom_save_optimized_save ==
    /\ proc = "custom"
    /\ SaveAfterTests(Custom_final_kwargs)

\* The quality is moved towards the strategy's quality_start; a format
\* other than 'JPEG', 'WebP' and 'PNG' is answered with JPEG parameters.
Custom_get_compression_params(q) ==
    LET adjusted_quality ==
            IF cfg.strategy = "size"
            THEN (IF q < Custom_quality_start THEN q ELSE Custom_quality_start)
            ELSE (IF q > Custom_quality_start THEN q ELSE Custom_quality_start)
    IN  CASE format = "JPEG" ->
               [SaveKwargs(format) EXCEPT
                  !.quality = {adjusted_quality},
                  !.progressive = {Custom_progressive},
                  !.optimize = {TRUE}]
          [] format = "WebP" ->
               [SaveKwargs(format) EXCEPT
                  !.quality = {adjusted_quality},
                  !.method = {Custom_webp_method},
                  !.lossless = {FALSE}, !.optimize = {TRUE}]
          [] format = "PNG" ->
               [SaveKwargs(format) EXCEPT
                  !.compress_level = {Custom_PNG_COMPRESS_LEVEL},
                  !.optimize = {TRUE}]
          [] OTHER ->
               [SaveKwargs("JPEG") EXCEPT
                  !.quality = {adjusted_quality}, !.optimize = {TRUE}]

(***************************************************************************)
(* QuickCompressProcessor.save_optimized, get_compression_params           *)
(***************************************************************************)
\* original_size_estimate = self._estimate_file_size(image).
Compress_save_optimized_estimate ==
    /\ proc = "compress"
    /\ pc = "save_loop"
    /\ Compress_save_estimate \notin DOMAIN known
    /\ LET kw == Compress_estimate_kwargs
       IN  IF SaveError(SaveImage, kw) # None
           THEN RaiseInSave(SaveError(SaveImage, kw))
           ELSE \E size \in {OriginalSize} :
                  /\ Encode(SaveImage, kw, size)
                  /\ UNCHANGED <<quality, final_quality, pc, error>>
    /\ UNCHANGED <<save_frame, format, file, metadata>>

\* One pass of the test loop: keep the quality and break when the encoding
\* is at least 63% below the estimate, else lower the quality.  Only the
\* encodings at the first quality and at the one kept can be made again (by
\* the final save): `known` keeps those.
Compress_save_optimized_test ==
    /\ proc = "compress"
    /\ pc = "save_loop"
    /\ Compress_save_estimate \in DOMAIN known
    /\ quality >= Compress_QUALITY_MIN
    /\ LET kw       == Compress_kwargs(quality)
           original == known[Compress_save_estimate]
       IN  IF SaveError(SaveImage, kw) # None
           THEN RaiseInSave(SaveError(SaveImage, kw))
           ELSE \E size \in Compress_save_sizes(original) :
                  LET reached == Compress_reduced_by(size, original, 9)
                  IN  /\ CodecKey(SaveImage, kw) \in DOMAIN known
                           => size = known[CodecKey(SaveImage, kw)]
                      /\ known' =
                           IF \/ reached
                              \/ quality = Compress_QUALITY_START
                              \/ parked.id # 0
                           THEN (CodecKey(SaveImage, kw) :> size) @@ known
                           ELSE known
                      /\ IF reached
                         THEN /\ final_quality' = {quality}
                              /\ pc' = "save_final"
                              /\ UNCHANGED quality
                         ELSE /\ quality' =
                                   quality - Compress_SAVE_QUALITY_STEP
                              /\ UNCHANGED <<pc, final_quality>>
                      /\ UNCHANGED error
    /\ UNCHANGED <<save_frame, format, file, metadata>>

Compress_save_optimized_save ==
    /\ proc = "compress"
    /\ TestExited
    /\ Compress_save_estimate \in DOMAIN known
    /\ SaveAfterTests(Compress_kwargs(The(final_quality)))

Compress_get_compression_params(q) == Compress_kwargs(q)

(***************************************************************************)
(* api/optimize.py: _process_image for an anonymous upload and the         *)
(* response built from its result.                                         *)
(***************************************************************************)
\* processor.get_compression_params(quality): Web inherits BaseProcessor's,
\* which asks for JPEG.
get_compression_params(q) ==
    CASE proc = "instagram" -> Instagram_get_compression_params(q)
      [] proc = "jury"      -> Jury_get_compression_params(q)
      [] proc = "web"       -> get_standard_compression_params("JPEG", q, TRUE)
      [] proc = "email"     -> Email_get_compression_params(q)
      [] proc = "custom"    -> Custom_get_compression_params(q)
      [] proc = "compress"  -> Compress_get_compression_params(q)

\* The quality _process_image asks get_compression_params for.
compression_quality == 95

\* The first assignments of save_optimized: its format_type and the
\* initial final_quality.
save_format(path) == IF proc = "web" THEN Web_save_format(path) ELSE format

final_quality_start ==
    IF proc = "utils" THEN cfg.quality_min ELSE quality_start

\* The registry of preset processors.
PROCESSORS ==
    [instagram_square |-> "instagram", jury_submission |-> "jury",
     web_display |-> "web", email_newsletter |-> "email",
     quick_compress |-> "compress"]

SUPPORTED_FORMATS == {".jpg", ".jpeg", ".png", ".webp", ".tiff", ".bmp"}

MAX_FILE_SIZE_MB == 10

\* "." + filename.split(".")[-1].lower(), for the file names of the model.
file_ext(filename) ==
    CASE filename = "test.jpg" -> ".jpg"
      [] filename = "TEST.PNG" -> ".png"
      [] filename = "test.txt" -> ".txt"
      [] filename = "photo"    -> ".photo"

\* raise HTTPException(status_code, detail): the handler ends with it.
Respond(status_code, detail) ==
    /\ response' = [status |-> status_code, detail |-> detail]
    /\ pc' = "responded"

\* What the stages before process() leave alone.
api_frame ==
    <<cfg, webp, entry, conc, source, image, attempts, known, result, error,
      output_path, quality, final_quality, file, metadata, image_data,
      locals, request, tmp_files>>

\* The first stage of optimize_image: the processor of the request.  For
\* 'custom' the feature flag is checked and a CustomProcessor built from
\* the form's parameters, whose ValueError becomes a 400; any other preset
\* is looked up in the registry.
optimize_image_processor ==
    /\ entry = "request"
    /\ pc = "request"
    /\ stages' = Append(stages, "preset")
    /\ IF request.preset = "custom"
       THEN IF ~request.CUSTOM_PRESETS_ENABLED
            THEN /\ Respond(403, "Custom presets are not enabled")
                 /\ UNCHANGED <<proc, format>>
            ELSE IF Custom_validate_requirements(cfg) # None
            THEN /\ Respond(400, "Invalid custom parameters")
                 /\ UNCHANGED <<proc, format>>
            ELSE /\ proc' = "custom"
                 /\ format' = Custom_format
                 /\ pc' = "validate"
                 /\ UNCHANGED response
       ELSE IF request.preset \notin DOMAIN PROCESSORS
            THEN /\ Respond(400, "Invalid preset")
                 /\ UNCHANGED <<proc, format>>
            ELSE /\ proc' = PROCESSORS[request.preset]
                 /\ pc' = "validate"
                 /\ UNCHANGED <<format, response>>
    /\ UNCHANGED api_frame

\* validate_upload_file without the check of the size.
validate_upload_file_any_size ==
    /\ entry = "request"
    /\ pc = "validate"
    /\ stages' = Append(stages, "validate")
    /\ IF request.filename = ""
       THEN Respond(400, "File must have a name")
       ELSE IF file_ext(request.filename) \notin SUPPORTED_FORMATS
       THEN Respond(400, "Unsupported file format")
       ELSE pc' = "decode" /\ UNCHANGED response
    /\ UNCHANGED <<proc, format, api_frame>>

\* _validate_upload_file: the name, the extension, the size.
validate_upload_file ==
    /\ entry = "request"
    /\ pc = "validate"
    /\ stages' = Append(stages, "validate")
    /\ IF request.filename = ""
       THEN Respond(400, "File must have a name")
       ELSE IF file_ext(request.filename) \notin SUPPORTED_FORMATS
       THEN Respond(400, "Unsupported file format")
       ELSE IF request.content_length > MAX_FILE_SIZE_MB * 1024 * 1024
       THEN Respond(413, "File too large")
       ELSE pc' = "decode" /\ UNCHANGED response
    /\ UNCHANGED <<proc, format, api_frame>>

\* _process_image opens the upload; UnidentifiedImageError becomes a 400,
\* and on an image processor.process(image) is called next.
process_image_open ==
    /\ entry = "request"
    /\ pc = "decode"
    /\ IF ~request.decodable
       THEN /\ Respond(400, "Invalid image file or corrupted data")
            /\ stages' = Append(stages, "decode")
       ELSE /\ pc' = "process"
            /\ stages' = stages \o <<"decode", "process">>
            /\ UNCHANGED response
    /\ UNCHANGED <<proc, format, api_frame>>

\* What the steps after process() leave alone.
result_frame ==
    <<proc, cfg, webp, entry, conc, source, image, attempts, result, locals,
      request, stages>>

\* process() has returned for a signed-in user: write the upload to a
\* temporary file of its own.
process_image_tmp_original ==
    /\ entry = "request"
    /\ pc = "returned"
    /\ request.user
    /\ tmp_files' = tmp_files \cup {"tmp_original"}
    /\ pc' = "store_original"
    /\ UNCHANGED <<result_frame, known, error, output_path, format, quality,
                   final_quality, file, metadata, image_data, response>>

\* process_image_store_original without the `finally` on a failure.
process_image_store_original_no_finally ==
    /\ entry = "request"
    /\ pc = "store_original"
    /\ \E success \in BOOLEAN :
         IF success
         THEN /\ pc' = "stored"
              /\ UNCHANGED <<response, tmp_files>>
         ELSE /\ Respond(500, "Failed to store original image")
              /\ UNCHANGED tmp_files
    /\ UNCHANGED <<result_frame, known, error, output_path, format, quality,
                   final_quality, file, metadata, image_data>>

\* store_original_image reports success or failure; a failure is raised
\* as a 500, and the `finally` unlinks the file on the way out.
process_image_store_original ==
    /\ entry = "request"
    /\ pc = "store_original"
    /\ \E success \in BOOLEAN :
         IF success
         THEN /\ pc' = "stored"
              /\ UNCHANGED <<response, tmp_files>>
         ELSE /\ Respond(500, "Failed to store original image")
              /\ tmp_files' = {}
    /\ UNCHANGED <<result_frame, known, error, output_path, format, quality,
                   final_quality, file, metadata, image_data>>

\* Create the temporary .jpg file and call save_optimized on the processed
\* image with its name.
process_image_save_optimized ==
    /\ entry = "request"
    /\ pc = (IF request.user THEN "stored" ELSE "returned")
    /\ tmp_files' =
         tmp_files \cup {IF request.user THEN "tmp_optimized" ELSE "tmp_file"}
    /\ output_path' = ".jpg"
    /\ file' = [path |-> ".jpg", size |-> 0]
    /\ format' = save_format(".jpg")
    /\ quality' = quality_start
    /\ final_quality' = {final_quality_start}
    /\ pc' = "save_loop"
    /\ UNCHANGED <<result_frame, known, error, metadata, image_data,
                   response>>

\* save_optimized has returned.  For a signed-in user the optimized file
\* is handed to store_optimized_image, whose failure is passed over, and
\* the `finally` unlinks both files before the encode; for an anonymous one
\* the encode comes first and the `finally` unlinks the file after it.  The
\* encode is of the processed image once more, with
\* get_compression_params(quality=95), as the image_data of the result.
process_image_encode ==
    /\ entry = "request"
    /\ pc = "saved"
    /\ LET kw == get_compression_params(compression_quality)
       IN  IF SaveError(result.image, kw) # None
           THEN /\ error' = SaveError(result.image, kw)
                /\ pc' = "raised"
                /\ UNCHANGED <<known, image_data>>
           ELSE \E size \in EncodedSizes :
                  /\ Encode(result.image, kw, size)
                  /\ image_data' = [kwargs |-> kw, size |-> size]
                  /\ pc' = "encoded"
                  /\ UNCHANGED error
    /\ file' = [size |-> None]
    /\ tmp_files' = {}
    /\ UNCHANGED <<result_frame, output_path, format, quality, final_quality,
                   metadata, response>>

\* The format the response's media type is chosen from:
\* processor_config.get("primary_format", processor_config.get("format")).
config_format ==
    CASE proc = "instagram" -> Instagram_FORMAT
      [] proc = "jury"      -> Jury_FORMAT
      [] proc = "web"       -> Web_PRIMARY_FORMAT
      [] proc = "email"     -> Email_FORMAT
      [] proc = "custom"    -> format
      [] proc = "compress"  -> Compress_FORMAT

\* dimensions.replace("×", "x").
HeaderDimensions(dimensions) ==
    IF dimensions[2] = MultiplicationSign
    THEN <<dimensions[1], "x", dimensions[3]>>
    ELSE dimensions

\* optimize_image answers with the image or with the ZIP; both carry the
\* length of image_data as X-File-Size.
create_response ==
    /\ entry = "request"
    /\ pc = "encoded"
    /\ response' =
         [status |-> 200,
          media_type |->
            IF request.format # "image" THEN "application/zip"
            ELSE IF Upper(config_format) = "WEBP" THEN "image/webp"
            ELSE "image/jpeg",
          file_ext |->
            IF request.format # "image" THEN "zip"
            ELSE IF Upper(config_format) = "WEBP" THEN "webp"
            ELSE "jpg",
          X_Preset |-> request.preset,
          X_File_Size |-> image_data.size,
          X_Dimensions |-> HeaderDimensions(metadata.dimensions)]
    /\ pc' = "responded"
    /\ UNCHANGED <<result_frame, known, error, output_path, format, quality,
                   final_quality, file, metadata, image_data, tmp_files>>

\* Any exception of process(), save_optimized or the encode becomes an
\* HTTP 500; the temporary files, if any were made, are unlinked.
process_image_except ==
    /\ entry = "request"
    /\ pc = "raised"
    /\ Respond(500, "Image processing error")
    /\ file' = [size |-> None]
    /\ tmp_files' = {}
    /\ UNCHANGED <<result_frame, known, error, output_path, format, quality,
                   final_quality, metadata, image_data>>
(***************************************************************************)
(* get_preset_config and the two listings.  A formatted string is the      *)
(* tuple of its parts.                                                     *)
(***************************************************************************)
Jury_DPI_RANGE == <<72, 300>>

Instagram_get_preset_config ==
    [name |-> "Instagram Square",
     description |-> "Optimized for Instagram square posts",
     dimensions |-> <<Instagram_TARGET_WIDTH, MultiplicationSign,
                      Instagram_TARGET_HEIGHT, "px">>,
     max_file_size |-> <<"<", Instagram_MAX_FILE_SIZE_MB, "MB">>,
     format |-> Instagram_FORMAT,
     color_space |-> "sRGB",
     aspect_ratio |-> "1:1",
     use_case |-> "Social media posts, portfolio sharing, engagement"]

Jury_get_preset_config ==
    [name |-> "Jury Submission",
     description |-> "Optimized for art competition and jury submissions",
     max_dimension |-> <<Jury_TARGET_MAX_DIMENSION, "px longest side">>,
     file_size_range |-> <<Jury_MIN_FILE_SIZE_MB, "-",
                           Jury_MAX_FILE_SIZE_MB, "MB">>,
     format |-> Jury_FORMAT,
     dpi_range |-> <<Jury_DPI_RANGE[1], "-", Jury_DPI_RANGE[2], " DPI">>,
     aspect_ratio |-> "Preserved",
     use_case |->
       "Art competitions, portfolio submissions, professional review"]

Web_get_preset_config ==
    [name |-> "Web Display",
     description |-> "Optimized for website galleries and online portfolios",
     dimensions |-> <<Web_TARGET_WIDTH, "px wide (height auto)">>,
     max_file_size |-> <<"<", Web_MAX_FILE_SIZE_KB, "KB">>,
     primary_format |-> Web_PRIMARY_FORMAT,
     fallback_format |-> Web_FALLBACK_FORMAT,
     aspect_ratio |-> "Preserved",
     use_case |-> "Website galleries, online portfolios, fast web loading"]

Email_get_preset_config ==
    [name |-> "Email Newsletter",
     description |->
       "Optimized for email newsletters and marketing campaigns",
     dimensions |-> <<Email_TARGET_WIDTH, "px wide (height auto)">>,
     max_file_size |-> <<"<", Email_MAX_FILE_SIZE_KB, "KB">>,
     format |-> Email_FORMAT,
     aspect_ratio |-> "Preserved",
     use_case |-> "Email marketing, newsletters, mobile-friendly delivery"]

Compress_get_preset_config ==
    [name |-> "Quick Compress",
     description |->
       "Reduce file size by 70% while keeping original dimensions",
     dimensions |-> "Original dimensions preserved",
     size_reduction |-> <<Compress_TARGET_REDUCTION_PERCENT, "% smaller">>,
     format |-> Compress_FORMAT,
     aspect_ratio |-> "Preserved",
     use_case |-> "Storage optimization, faster uploads, bandwidth saving"]

get_preset_config(p) ==
    CASE p = "instagram" -> Instagram_get_preset_config
      [] p = "jury"      -> Jury_get_preset_config
      [] p = "web"       -> Web_get_preset_config
      [] p = "email"     -> Email_get_preset_config
      [] p = "compress"  -> Compress_get_preset_config

listing_frame ==
    <<proc, cfg, webp, entry, conc, source, image, format, quality, attempts,
      known, result, error, output_path, final_quality, file, metadata,
      image_data, locals, request, stages, tmp_files>>

\* GET /optimize/processors: the configuration of every registered
\* processor.
get_available_processors ==
    /\ entry = "listing"
    /\ pc = "listing"
    /\ request.endpoint = "/optimize/processors"
    /\ response' =
         [status |-> 200,
          processors |->
            [id \in DOMAIN PROCESSORS |-> get_preset_config(PROCESSORS[id])],
          total_count |-> Cardinality(DOMAIN PROCESSORS),
          supported_formats |-> SUPPORTED_FORMATS,
          max_file_size_mb |-> MAX_FILE_SIZE_MB]
    /\ pc' = "responded"
    /\ UNCHANGED listing_frame

\* The processors get_presets constructs for the call.
PresetProcessors ==
    [instagram_square |-> "instagram", jury_submission |-> "jury",
     web_display |-> "web", email_newsletter |-> "email",
     quick_compress |-> "compress"]

\* GET /presets.
get_presets ==
    /\ entry = "listing"
    /\ pc = "listing"
    /\ request.endpoint = "/presets"
    /\ response' =
         [status |-> 200,
          presets |->
            [id \in DOMAIN PresetProcessors |->
               get_preset_config(PresetProcessors[id])],
          total_count |-> Cardinality(DOMAIN PresetProcessors)]
    /\ pc' = "responded"
    /\ UNCHANGED listing_frame

(***************************************************************************)
(* Inputs.                                                                 *)
(***************************************************************************)
\* The save arguments of the running search's loop at quality q.
loop_kwargs(q) ==
    CASE proc = "utils"     -> optimize_file_size_kwargs(q)
      [] proc = "instagram" -> Instagram_loop_kwargs(q)
      [] proc = "jury"      -> Jury_kwargs(q)
      [] proc = "web"       -> Web_kwargs(format, q)
      [] proc = "email"     -> Email_kwargs(q)
      [] proc = "custom"    -> Custom_loop_kwargs(q)

Processors ==
    {"utils", "instagram", "jury", "web", "email", "custom", "compress"}

\* The processors with a process(): the presets of the API and Custom.
Presets == {"instagram", "jury", "web", "email", "custom", "compress"}

\* Calls of optimize_file_size(image, max_size_bytes, format_type,
\* quality_start, quality_min, quality_step, progressive).
UtilsCalls ==
    [max_size_bytes : {512000}, format_type : {"JPEG", "WEBP"},
     quality_start : {95, 70}, quality_min : {40, 80},
     quality_step : {5, 10}, progressive : {TRUE}]

\* CustomProcessor(width, height, max_size_mb, format, strategy,
\* max_dimension); max_size_mb is max_size_kb / 1024 and {} is None.
CustomConfig(width, height, max_size_kb, format_name, strategy, max_dim) ==
    [width |-> width, height |-> height, max_size_kb |-> max_size_kb,
     format |-> format_name, strategy |-> strategy,
     max_dimension |-> max_dim]

CustomConfigs ==
    {c \in
       {CustomConfig({}, {}, kb, f, s, {}) :
          kb \in {512, 5120}, f \in {"JPEG", "WebP", "PNG"},
          s \in {"quality", "size"}}
       \cup
       {CustomConfig(d[1], d[2], 5120, "JPEG", "quality", d[3]) :
          d \in {<<{800}, {600}, {}>>, <<{800}, {600}, {1000}>>,
                 <<{800}, {}, {}>>, <<{}, {600}, {}>>,
                 <<{}, {}, {1000}>>}} :
     Custom_validate_requirements(c) = None}

NoConfig == [none |-> TRUE]

Configs(p) ==
    CASE p = "utils"  -> UtilsCalls
      [] p = "custom" -> CustomConfigs
      [] OTHER        -> {NoConfig}

RasterImage(w, h, mode) ==
    [size |-> <<w, h>>, mode |-> mode, pixels |-> "original",
     format |-> None]

SearchImages == {RasterImage(3000, 2000, "RGB")}

NoMetadata == [none |-> TRUE]

NothingSaved ==
    /\ final_quality = {}
    /\ file = [size |-> None]
    /\ metadata = NoMetadata
    /\ image_data = [size |-> None]
    /\ response = [status |-> None]

\* What is given about the encoder before the call: nothing, or the byte
\* count of the image at one quality of the search range, within the limit.
EncoderFacts ==
    {<< >>} \cup
    {CodecKey(image, loop_kwargs(q)) :> size :
       q \in {r \in quality_min..quality_start :
                SaveError(image, loop_kwargs(r)) = None},
       size \in {n \in EncodedSizes : n <= max_size_bytes}}

InitSearch ==
    /\ entry = "search"
    /\ Sequential
    /\ proc \in Processors \ {"compress"}
    /\ cfg \in Configs(proc)
    /\ webp \in BOOLEAN
    /\ source \in SearchImages
    /\ image = source
    /\ format \in CASE proc = "web" -> {Web_PRIMARY_FORMAT, Web_FALLBACK_FORMAT}
                    [] proc = "custom" -> {Custom_format}
                    [] OTHER -> {None}
    /\ quality = quality_start
    /\ pc = "loop"
    /\ attempts = << >>
    /\ known \in EncoderFacts
    /\ result = [branch |-> None]
    /\ error = None
    /\ output_path = None
    /\ NothingSaved
    /\ locals = NoLocals
    /\ NoRequest

\* Image sides and modes given to process().
Sides == {1, 3, 600, 1080, 1920, 1921, 2148, 5000}

\* Grayscale, palette, RGB, RGBA, CMYK and YCbCr inputs.
InputModes == {"L", "P", "RGB", "RGBA", "CMYK", "YCbCr"}

ProcessImages ==
    {RasterImage(w, h, "RGB") : w \in Sides, h \in Sides}
    \cup {RasterImage(3000, 2000, mode) : mode \in InputModes \ {"RGB"}}

\* The Pillow builds: quick compress never writes WebP.
Builds(p) == IF p = "compress" THEN {TRUE} ELSE BOOLEAN

\* Quick compress does no geometry: its inputs differ by mode.
ProcessInputs(p) ==
    IF p = "compress"
    THEN {RasterImage(3000, 2000, mode) : mode \in {"RGB", "RGBA"}}
    ELSE ProcessImages

InitProcess ==
    /\ entry = "process"
    /\ Sequential
    /\ proc \in Presets
    /\ cfg \in Configs(proc)
    /\ webp \in Builds(proc)
    /\ source \in ProcessInputs(proc)
    /\ image = source
    /\ format = (IF proc = "custom" THEN Custom_format ELSE None)
    /\ quality = quality_start
    /\ pc = "process"
    /\ attempts = << >>
    /\ known = << >>
    /\ result = [branch |-> None]
    /\ error = None
    /\ output_path = None
    /\ NothingSaved
    /\ locals = NoLocals
    /\ NoRequest

\* Calls of save_optimized(image, output_path) and, for "utils", of
\* save_optimized_with_metadata with the arguments of UtilsCalls.
SaveImages == {RasterImage(1080, 1080, mode) : mode \in {"RGB", "RGBA"}}

OutputPaths(p) == IF p = "web" THEN {".jpg", ".webp"} ELSE {".jpg"}

InitSave ==
    /\ entry = "save"
    /\ Sequential
    /\ proc \in Processors
    /\ cfg \in Configs(proc)
    /\ webp \in Builds(proc)
    /\ source \in SaveImages
    /\ image = source
    /\ output_path \in OutputPaths(proc)
    /\ format = (IF proc = "custom" THEN Custom_format
                 ELSE IF proc = "web" THEN Web_save_format(output_path)
                 ELSE None)
    /\ quality = quality_start
    /\ final_quality = {final_quality_start}
    /\ pc = "save_loop"
    /\ attempts = << >>
    /\ known = << >>
    /\ result = [branch |-> None]
    /\ error = None
    /\ file = [size |-> None]
    /\ metadata = NoMetadata
    /\ image_data = [size |-> None]
    /\ response = [status |-> None]
    /\ locals = NoLocals
    /\ NoRequest

\* Requests to optimize_image.
RequestImages ==
    {RasterImage(3000, 2000, "RGB"), RasterImage(1, 1921, "RGB"),
     RasterImage(3000, 2000, "RGBA")}

\* The form's custom parameters: configurations the constructor accepts
\* and one it rejects.
RequestConfigs(preset) ==
    IF preset = "custom"
    THEN {c \in CustomConfigs : c.max_size_kb = 5120}
         \cup {CustomConfig({}, {}, 300, "JPEG", "quality", {})}
    ELSE {NoConfig}

\* An upload that passes validation and decodes: ten megabytes exactly.
GoodUpload ==
    [filename |-> "test.jpg", content_length |-> MAX_FILE_SIZE_MB * 1024 * 1024,
     decodable |-> TRUE]

Uploads ==
    [filename : {"", "test.jpg", "TEST.PNG", "test.txt", "photo"},
     content_length : {1000, MAX_FILE_SIZE_MB * 1024 * 1024,
                       MAX_FILE_SIZE_MB * 1024 * 1024 + 1},
     decodable : BOOLEAN]

\* optimize_image(file, preset, format, current_user, custom_...), under
\* either setting of the feature flag when the preset is 'custom'.
Requests ==
    {[preset |-> p, format |-> f, user |-> u,
      CUSTOM_PRESETS_ENABLED |-> e, filename |-> up.filename,
      content_length |-> up.content_length, decodable |-> up.decodable] :
       p \in DOMAIN PROCESSORS \cup {"custom", "invalid_preset"},
       f \in {"image", "zip"}, u \in BOOLEAN, e \in BOOLEAN, up \in Uploads}

InitRequest ==
    /\ entry = "request"
    /\ Sequential
    /\ request \in Requests
    /\ request.preset # "custom" => request.CUSTOM_PRESETS_ENABLED
    /\ proc = None
    /\ cfg \in RequestConfigs(request.preset)
    /\ webp \in (IF request.preset = "quick_compress" THEN {TRUE}
                 ELSE BOOLEAN)
    /\ source \in RequestImages
    /\ \/ /\ request.filename = GoodUpload.filename
          /\ request.content_length = GoodUpload.content_length
          /\ request.decodable
       \/ /\ source = RasterImage(3000, 2000, "RGB")
          /\ webp
          /\ ~request.user
          /\ request.format = "image"
    /\ image = source
    /\ format = None
    /\ quality = 0
    /\ pc = "request"
    /\ attempts = << >>
    /\ known = << >>
    /\ result = [branch |-> None]
    /\ error = None
    /\ output_path = None
    /\ NothingSaved
    /\ locals = NoLocals
    /\ stages = << >>
    /\ tmp_files = {}

\* Arguments CustomProcessor may be constructed with, the impossible
\* combinations included.
CustomArgs ==
    {CustomConfig(d[1], d[2], kb, f, st, {}) :
       d \in {<<{}, {}>>, <<{2000}, {2000}>>, <<{100}, {100}>>,
              <<{2000}, {}>>},
       kb \in {300, 512, 1000, 1024, 5120},
       f \in {"JPEG", "jpeg", "WebP", "webp", "PNG", "png"},
       st \in {"quality", "size"}}

\* CustomProcessor(...) is about to be constructed.
InitConstruct ==
    /\ entry = "construct"
    /\ Sequential
    /\ proc = "custom"
    /\ cfg \in CustomArgs
    /\ webp = TRUE
    /\ source \in SearchImages
    /\ image = source
    /\ format = None
    /\ quality = 0
    /\ pc = "init"
    /\ attempts = << >>
    /\ known = << >>
    /\ result = [branch |-> None]
    /\ error = None
    /\ output_path = None
    /\ NothingSaved
    /\ locals = NoLocals
    /\ NoRequest

\* __init__: store the upper-cased format, take the strategy's settings
\* and validate; an impossible combination raises ValueError.
Custom_init ==
    /\ entry = "construct"
    /\ pc = "init"
    /\ format' = Custom_format
    /\ IF Custom_validate_requirements(cfg) # None
       THEN /\ error' = Custom_validate_requirements(cfg)
            /\ pc' = "raised"
            /\ UNCHANGED quality
       ELSE /\ pc' = "constructed"
            /\ quality' = Custom_quality_start
            /\ UNCHANGED error
    /\ UNCHANGED <<proc, cfg, webp, entry, conc, source, saving, outside, image, known,
                   attempts, result>>

\* Calls of _smart_crop: sizes and targets of equal, wider and taller
\* aspect ratio.
CropSizes ==
    {<<1, 1>>, <<1, 8191>>, <<21, 119>>, <<39, 221>>, <<100, 200>>,
     <<200, 100>>, <<800, 1200>>, <<1080, 1080>>, <<1081, 1080>>,
     <<1200, 800>>, <<1920, 1080>>, <<3000, 2000>>, <<4000, 3000>>}

CropTargets ==
    {<<1, 3>>, <<3, 2>>, <<3, 17>>, <<4, 3>>, <<16, 9>>, <<100, 100>>,
     <<800, 600>>, <<1080, 1080>>, <<1200, 628>>}

InitCrop ==
    /\ entry = "crop"
    /\ Sequential
    /\ proc = None
    /\ \E t \in CropTargets :
         cfg = [target_width |-> t[1], target_height |-> t[2]]
    /\ webp = TRUE
    /\ \E size \in CropSizes : source = RasterImage(size[1], size[2], "RGB")
    /\ image = source
    /\ format = None
    /\ quality = 0
    /\ pc = "crop"
    /\ attempts = << >>
    /\ known = << >>
    /\ result = [branch |-> None]
    /\ error = None
    /\ output_path = None
    /\ NothingSaved
    /\ locals = NoLocals
    /\ NoRequest

\* A GET of one of the two listings.
InitListing ==
    /\ entry = "listing"
    /\ Sequential
    /\ proc = None
    /\ cfg = NoConfig
    /\ webp = TRUE
    /\ source \in SearchImages
    /\ image = source
    /\ format = None
    /\ quality = 0
    /\ pc = "listing"
    /\ attempts = << >>
    /\ known = << >>
    /\ result = [branch |-> None]
    /\ error = None
    /\ output_path = None
    /\ NothingSaved
    /\ locals = NoLocals
    /\ request \in {[endpoint |-> e] : e \in {"/optimize/processors", "/presets"}}
    /\ stages = << >>
    /\ tmp_files = {}

Init ==
    \/ InitSearch \/ InitProcess \/ InitSave \/ InitRequest
    \/ InitConstruct \/ InitCrop \/ InitListing

Next ==
    \/ BaseProcessor_smart_crop
    \/ get_available_processors
    \/ get_presets
    \/ optimize_file_size_loop
    \/ optimize_file_size_fallback
    \/ Instagram_process
    \/ Instagram_optimize_file_size_loop
    \/ Instagram_optimize_file_size_fallback
    \/ Web_process
    \/ Web_optimize_for_web_loop
    \/ Web_optimize_for_web_fallback
    \/ Email_process
    \/ Email_optimize_for_email_loop
    \/ Email_optimize_for_email_fallback
    \/ Custom_process
    \/ Custom_optimize_for_custom_size_loop
    \/ Custom_optimize_for_custom_size_fallback
    \/ Jury_process
    \/ Jury_optimize_for_jury_size_loop
    \/ Jury_optimize_for_jury_size_fallback
    \/ save_optimized_with_metadata_test
    \/ save_optimized_with_metadata_save
    \/ Instagram_save_optimized_test
    \/ Instagram_save_optimized_save
    \/ Web_save_optimized_test
    \/ Web_save_optimized_save
    \/ Email_save_optimized_test
    \/ Email_save_optimized_save
    \/ Custom_save_optimized_test
    \/ Custom_save_optimized_save
    \/ Jury_save_optimized_test
    \/ Jury_save_optimized_save
    \/ process_image_save_optimized
    \/ process_image_encode
    \/ create_response
    \/ process_image_except
    \/ optimize_image_processor
    \/ validate_upload_file
    \/ process_image_open
    \/ process_image_tmp_original
    \/ process_image_store_original
    \/ Custom_init
    \/ Compress_process
    \/ Compress_compress_to_target_size_loop
    \/ Compress_compress_to_target_size_final
    \/ Compress_save_optimized_estimate
    \/ Compress_save_optimized_test
    \/ Compress_save_optimized_save

Spec == Init /\ [][Next]_vars

\* Every enabled step is eventually taken: a call that has started runs on.
FairSpec == Spec /\ WF_vars(Next)

(***************************************************************************)
(* _compress_to_target_size called on its own: an RGB image, the estimate  *)
(* of its size made, the locals as process() sets them.                    *)
(***************************************************************************)
InitDescent ==
    /\ entry = "descent"
    /\ Sequential
    /\ proc = "compress"
    /\ cfg = NoConfig
    /\ webp = FALSE
    /\ source \in {RasterImage(3000, 2000, "RGB")}
    /\ image = source
    /\ format = Compress_FORMAT
    /\ quality = Compress_QUALITY_START
    /\ pc = "loop"
    /\ attempts = << >>
    /\ known = (CodecKey(image, Compress_estimate_kwargs) :> OriginalSize)
    /\ result = [branch |-> None]
    /\ error = None
    /\ output_path = None
    /\ NothingSaved
    /\ locals = [original_size |-> OriginalSize,
                 best_quality |-> Compress_QUALITY_START,
                 best_size |-> {},
                 iterations |-> 0]
    /\ NoRequest

DescentNext ==
    \/ Compress_compress_to_target_size_loop
    \/ Compress_compress_to_target_size_final

DescentSpec == InitDescent /\ [][DescentNext]_vars

(***************************************************************************)
(* Two concurrent requests.  Each request has its own local variables and  *)
(* its own temporary files; the requests share the registry's processor    *)
(* objects, the Pillow build and the encoder, which is a function of its   *)
(* arguments.  One request runs in the variables of the model while the    *)
(* other waits in `parked`; the scheduler may exchange them between any    *)
(* two steps.                                                              *)
(***************************************************************************)
\* The running request's own state, as it is put aside.
Frame(id) ==
    [id |-> id,
          proc |-> proc,
          cfg |-> cfg,
          image |-> image,
          format |-> format,
          quality |-> quality,
          pc |-> pc,
          attempts |-> attempts,
          result |-> result,
          error |-> error,
          source |-> source,
          output_path |-> output_path,
          final_quality |-> final_quality,
          file |-> file,
          metadata |-> metadata,
          image_data |-> image_data,
          response |-> response,
          locals |-> locals,
          request |-> request,
          stages |-> stages,
          tmp_files |-> tmp_files]

\* Two requests for the same preset, with the same upload and form, arrive;
\* the first runs.  optimize_image constructs a CustomProcessor of its own
\* for each custom request.
ConcInit ==
    /\ entry = "request"
    /\ \E p \in DOMAIN PROCESSORS \cup {"custom"} :
         request = [preset |-> p, format |-> "image", user |-> FALSE,
                    CUSTOM_PRESETS_ENABLED |-> TRUE,
                    filename |-> GoodUpload.filename,
                    content_length |-> GoodUpload.content_length,
                    decodable |-> TRUE]
    /\ proc = None
    /\ cfg \in (IF request.preset = "custom"
                THEN {CustomConfig({}, {}, 5120, f, "quality", {}) :
                        f \in {"JPEG", "PNG"}}
                ELSE {NoConfig})
    /\ webp \in (IF request.preset = "web_display" THEN BOOLEAN ELSE {TRUE})
    /\ source = RasterImage(3000, 2000, "RGB")
    /\ image = source
    /\ format = None
    /\ quality = 0
    /\ pc = "request"
    /\ attempts = << >>
    /\ known = << >>
    /\ result = [branch |-> None]
    /\ error = None
    /\ output_path = None
    /\ NothingSaved
    /\ locals = NoLocals
    /\ stages = << >>
    /\ tmp_files = {}
    /\ instances = [id \in DOMAIN PROCESSORS |-> NoAttributes]
    /\ parked = Frame(2)

\* The scheduler lets the waiting request run and puts the running one
\* aside.
Switch ==
    /\ parked.id # 0
    /\ parked' = Frame(3 - parked.id)
    /\ proc' = parked.proc
    /\ cfg' = parked.cfg
    /\ image' = parked.image
    /\ format' = parked.format
    /\ quality' = parked.quality
    /\ pc' = parked.pc
    /\ attempts' = parked.attempts
    /\ result' = parked.result
    /\ error' = parked.error
    /\ source' = parked.source
    /\ output_path' = parked.output_path
    /\ final_quality' = parked.final_quality
    /\ file' = parked.file
    /\ metadata' = parked.metadata
    /\ image_data' = parked.image_data
    /\ response' = parked.response
    /\ locals' = parked.locals
    /\ request' = parked.request
    /\ stages' = parked.stages
    /\ tmp_files' = parked.tmp_files
    /\ UNCHANGED <<webp, entry, known, instances>>

ConcNext ==
    \/ Switch
    \/ optimize_image_processor
    \/ validate_upload_file
    \/ process_image_open
    \/ Instagram_process
    \/ Instagram_optimize_file_size_loop
    \/ Instagram_optimize_file_size_fallback
    \/ Web_process
    \/ Web_optimize_for_web_loop
    \/ Web_optimize_for_web_fallback
    \/ Email_process
    \/ Jury_process
    \/ Jury_optimize_for_jury_size_loop
    \/ Jury_optimize_for_jury_size_fallback
    \/ Compress_process
    \/ Compress_compress_to_target_size_loop
    \/ Compress_compress_to_target_size_final
    \/ Custom_process
    \/ Custom_optimize_for_custom_size_loop
    \/ Custom_optimize_for_custom_size_fallback
    \/ Custom_save_optimized_test
    \/ Custom_save_optimized_save
    \/ process_image_save_optimized
    \/ Instagram_save_optimized_test
    \/ Instagram_save_optimized_save
    \/ Web_save_optimized_test
    \/ Web_save_optimized_save
    \/ Jury_save_optimized_test
    \/ Jury_save_optimized_save
    \/ Compress_save_optimized_estimate
    \/ Compress_save_optimized_test
    \/ Compress_save_optimized_save
    \/ process_image_encode
    \/ create_response
    \/ process_image_except

ConcSpec == ConcInit /\ [][ConcNext]_vars

(***************************************************************************)
(* Properties.                                                             *)
(***************************************************************************)
CeilingSearches == {"utils", "instagram", "web", "email", "custom"}

SearchReturned == result.branch # None

\* The encoder is known to produce at most max_size_bytes for the search's
\* image with the loop's arguments at quality q.
Fits(q) ==
    LET key == CodecKey(image, loop_kwargs(q))
    IN  key \in DOMAIN known /\ known[key] <= max_size_bytes

\* The qualities the loop visits: quality_start, then down by quality_step
\* while not below quality_min.
GridQualities ==
    {q \in quality_min..quality_start :
       (quality_start - q) % quality_step = 0}

Max(S) == CHOOSE x \in S : \A y \in S : y <= x

FloorDiv(a, b) == a \div b

CeilDiv(a, b) == (a + b - 1) \div b

LoopAttempts == SelectSeq(attempts, LAMBDA a : a.phase = "loop")

C3_FirstSuccessWins ==
    LET tries == LoopAttempts
    IN  (\A i \in 1..Len(tries) :
           Upper(tries[i].kwargs.format) \in {"JPEG", "WEBP"})
        => /\ \A i \in 1..Len(tries) : tries[i].kwargs.quality # {}
           /\ \A i, j \in 1..Len(tries) :
                (i < j /\ tries[i].kwargs.quality # {}
                       /\ tries[j].kwargs.quality # {})
                => The(tries[i].kwargs.quality) > The(tries[j].kwargs.quality)
           /\ (proc \in CeilingSearches /\ result.branch = "accepted")
              => /\ tries[Len(tries)].size <= max_size_bytes
                 /\ \A i \in 1..(Len(tries) - 1) :
                      tries[i].size > max_size_bytes

\* C4: a fixed-step ceiling search with quality_start >= quality_min makes
\* at most floor((quality_start - quality_min) / quality_step) + 2 saves.
C4_BoundedAttempts ==
    (/\ proc \in CeilingSearches
     /\ proc = "custom" => Custom_format \in {"JPEG", "WEBP"}
     /\ quality_start >= quality_min)
    => Len(attempts)
         <= FloorDiv(quality_start - quality_min, quality_step) + 2

\* C4 witness: a search that used the whole allowance, the loop down to the
\* floor and the fallback save.
C4_Witness ==
    /\ proc \in CeilingSearches
    /\ quality_start > quality_min
    /\ SearchReturned
    /\ Len(attempts)
         = FloorDiv(quality_start - quality_min, quality_step) + 2

UnmetTarget ==
    /\ proc \in CeilingSearches
    /\ result.branch = "fallback"
    /\ result.size > max_size_bytes

\* The call under observation has handed its result to its caller.
CallFinished ==
    \/ entry \in {"search", "process"} /\ pc = "returned"
    \/ entry = "save" /\ pc = "saved"
    \/ entry = "request" /\ pc = "responded"

\* The keys under which a processor reports whether the size target was met.
VerdictKeys ==
    {"met_target", "meets_requirement", "meets_size_requirement",
     "meets_email_requirements", "meets_jury_requirements"}

\* The verdicts on the size target the caller has been handed: a search and
\* process() return an Image and nothing else, save_optimized a mapping.
Verdicts ==
    IF "file_path" \in DOMAIN metadata
    THEN {metadata[k] : k \in DOMAIN metadata \cap VerdictKeys}
    ELSE {}

\* C2 as stated: when no attempted quality met the ceiling, the search has
\* made one final encode at the quality floor and returned it, and the
\* caller has, with the result, an explicit indication that the target was
\* not met.
C2_UnmetTargetIsReported ==
    (UnmetTarget /\ CallFinished)
    => /\ attempts[Len(attempts)].phase = "fallback"
       /\ result.kwargs.quality = {quality_min}
       /\ FALSE \in Verdicts

\* C6 as stated: the bytes a request answers with exceed the preset's
\* ceiling only if the returned metadata reports the violation, and never
\* when process() found a quality that fits the ceiling.
C6_NoSilentViolation ==
    (entry = "request" /\ pc = "responded" /\ response.status = 200)
    => /\ response.X_File_Size = image_data.size
       /\ image_data.size > max_size_bytes => FALSE \in Verdicts
       /\ result.branch = "accepted" => image_data.size <= max_size_bytes

\* The written file satisfies the processor's size bound.
SatisfiesBound(file_size) ==
    IF proc = "jury"
    THEN min_size_bytes <= file_size /\ file_size <= max_size_bytes
    ELSE file_size <= max_size_bytes

\* C7 as stated: the mapping a save call returns has the keys
\* file_size_bytes, file_size_mb, dimensions and format, quality when the
\* file is in a lossy format, and a boolean meets_requirement that is true
\* exactly when the written file satisfies the size bound.
C7_MetadataShape ==
    pc = "saved"
    => /\ {"file_size_bytes", "file_size_mb", "dimensions", "format"}
            \subseteq DOMAIN metadata
       /\ Upper(file.kwargs.format) \in {"JPEG", "WEBP"}
            => "quality" \in DOMAIN metadata
       /\ "meets_requirement" \in DOMAIN metadata
       /\ metadata.meets_requirement \in BOOLEAN
       /\ metadata.meets_requirement <=> SatisfiesBound(file.size)

ProcessFinished == entry = "process" /\ pc \in {"returned", "raised"}

HasFixedTarget ==
    \/ proc = "instagram"
    \/ proc = "custom" /\ cfg.width # {} /\ cfg.height # {}

FixedTarget ==
    IF proc = "instagram"
    THEN <<Instagram_TARGET_WIDTH, Instagram_TARGET_HEIGHT>>
    ELSE <<The(cfg.width), The(cfg.height)>>

\* C8 as stated: for a processor with a fixed target size (Instagram;
\* Custom built with width and height), process() of any image of at least
\* 1x1 returns an image of exactly the target size.
C8_FixedTargetSize ==
    (ProcessFinished /\ HasFixedTarget)
    => (pc = "returned" /\ result.image.size = FixedTarget)

\* C9 as stated: for Web Display (1920) and Email Newsletter (600),
\* process() of an image no wider than the target width completes and
\* returns an RGB image with the input's width and height.
C9_NoUpscale ==
    (/\ ProcessFinished
     /\ \/ proc = "web" /\ source.size[1] <= Web_TARGET_WIDTH
        \/ proc = "email" /\ source.size[1] <= Email_TARGET_WIDTH)
    => /\ pc = "returned"
       /\ result.image.size = source.size
       /\ result.image.mode = "RGB"

Abs(x) == IF x < 0 THEN -x ELSE x

Longest(size) == IF size[1] > size[2] THEN size[1] ELSE size[2]

\* C10 as stated: the jury preset's process() leaves an image whose longest
\* side is at most 1920 at its size, and scales any other so that the
\* longest side is exactly 1920 and the aspect ratio w/h moves by less than
\* 0.01.
C10_JuryGeometry ==
    (ProcessFinished /\ proc = "jury")
    => /\ pc = "returned"
       /\ LET in  == source.size
              out == result.image.size
          IN  IF Longest(in) <= Jury_TARGET_MAX_DIMENSION
              THEN out = in
              ELSE /\ Longest(out) = Jury_TARGET_MAX_DIMENSION
                   /\ 100 * Abs(out[1] * in[2] - in[1] * out[2])
                        < in[2] * out[2]

InBand(size) == min_size_bytes <= size /\ size <= max_size_bytes

\* C11: the jury search tries 95, 90, ... down to 60, going on only while
\* the size is above 2MB; it returns the first encoding inside [1MB, 2MB],
\* or the very first one if that is already below 1MB; when no attempt
\* landed in the band the result is the encoding at the last attempted
\* quality, not below 60.
C11_BandSearch ==
    proc = "jury"
    => LET tries == LoopAttempts
           n     == Len(tries)
       IN  /\ \A i \in 1..n :
                /\ tries[i].kwargs =
                     Jury_kwargs(Jury_QUALITY_START - Jury_QUALITY_STEP * (i - 1))
                /\ The(tries[i].kwargs.quality) >= Jury_QUALITY_MIN
                /\ i < n => tries[i].size > max_size_bytes
           /\ (n >= 1 /\ tries[1].size < min_size_bytes)
                => (n = 1 /\ result.branch = "accepted")
           /\ result.branch = "accepted"
                => /\ InBand(tries[n].size)
                      \/ (n = 1 /\ tries[1].size < min_size_bytes)
                   /\ result.kwargs = tries[n].kwargs
                   /\ result.size = tries[n].size
           /\ result.branch = "fallback"
                => /\ \A i \in 1..n : ~InBand(tries[i].size)
                   /\ n >= 1
                   /\ result.kwargs = tries[n].kwargs
                   /\ result.size = tries[n].size

\* C11 witness: the search went below the band after being above it and
\* returned the encoding at that last quality.
C11_Witness ==
    /\ proc = "jury"
    /\ result.branch = "fallback"
    /\ Len(LoopAttempts) >= 2
    /\ LoopAttempts[Len(LoopAttempts)].size < min_size_bytes
    /\ result.kwargs.quality = LoopAttempts[Len(LoopAttempts)].kwargs.quality

\* The processors that document a JPEG fallback for WebP: Web Display and
\* a Custom processor constructed with format WebP.
HasWebPFallback ==
    \/ proc = "web"
    \/ proc = "custom" /\ Upper(cfg.format) = "WEBP"

\* C12 as stated: where the build cannot write WebP, process() of Web
\* Display and of a Custom processor constructed with WebP falls back to
\* JPEG: it returns a JPEG encoding if the image can be saved as JPEG and
\* raises if it cannot; where WebP can be written nothing is retried and the
\* result is WebP.
C12_WebPFallsBackOnce ==
    (ProcessFinished /\ HasWebPFallback /\ error # "ValueError")
    => IF webp
       THEN pc = "returned" /\ Upper(result.kwargs.format) = "WEBP"
       ELSE IF image.mode \in {"RGBA", "LA", "P"}
       THEN pc = "raised"
       ELSE pc = "returned" /\ Upper(result.kwargs.format) = "JPEG"

\* The constructor has run to its end or to its exception.
Constructed == entry = "construct" /\ pc \in {"constructed", "raised"}

\* C13 as stated: constructing a Custom processor with strategy 'quality',
\* max_size_mb below 0.5 and a lossy format, JPEG or WebP in any letter
\* case, raises ValueError, and no encode has been attempted.
C13_QualityStrategyRejected ==
    (/\ Constructed
     /\ cfg.strategy = "quality"
     /\ cfg.max_size_kb < 512
     /\ Upper(cfg.format) \in {"JPEG", "WEBP"})
    => (pc = "raised" /\ error = "ValueError" /\ attempts = << >>)

\* C14 as stated: constructing a Custom processor with format PNG and a
\* target width and height whose width * height * 3 bytes exceed
\* max_size_mb megabytes raises ValueError, whatever max_size_mb is, and no
\* encode has been attempted.
C14_PngRejected ==
    (/\ Constructed
     /\ Upper(cfg.format) = "PNG"
     /\ Truthy(cfg.width) /\ Truthy(cfg.height)
     /\ The(cfg.width) * The(cfg.height) * 3 > cfg.max_size_kb * 1024)
    => (pc = "raised" /\ error = "ValueError" /\ attempts = << >>)

\* process() of a Custom processor with PNG output has returned.
PngProcessed ==
    ProcessFinished /\ proc = "custom" /\ format = "PNG" /\ pc = "returned"

\* C15 as stated: with PNG output, process() makes exactly one encode
\* attempt, at maximum compression effort, whether or not the encoding
\* fits, and the result is the accepted one iff that encoding is within the
\* ceiling.
C15_PngSingleAttempt ==
    PngProcessed
    => /\ Len(attempts) = 1
       /\ attempts[1].kwargs.compress_level = {Custom_PNG_COMPRESS_LEVEL}
       /\ result.size = attempts[1].size
       /\ result.branch = "accepted" <=> attempts[1].size <= max_size_bytes

\* The presets registered in PROCESSORS.
Registered == {"instagram", "jury", "web", "email", "compress"}

\* C16 as stated: an optimize request for any registered preset, in either
\* response format, with a valid image, is answered with status 200.
C16_EveryPresetWorks ==
    (entry = "request" /\ pc = "responded" /\ proc \in Registered)
    => response.status = 200

\* The stages of an optimize request, in their order.
StageOrder == <<"preset", "validate", "decode", "process">>

\* What the request's inputs make of each stage before process().
PresetFails ==
    IF request.preset = "custom"
    THEN ~request.CUSTOM_PRESETS_ENABLED
         \/ Custom_validate_requirements(cfg) # None
    ELSE request.preset \notin DOMAIN PROCESSORS

UploadFails ==
    \/ request.filename = ""
    \/ file_ext(request.filename) \notin SUPPORTED_FORMATS
    \/ request.content_length > MAX_FILE_SIZE_MB * 1024 * 1024

DecodeFails == ~request.decodable

\* No processor has run and nothing was written.
NotInvoked ==
    /\ error = None
    /\ known = << >>
    /\ attempts = << >>
    /\ result = [branch |-> None]
    /\ image = source
    /\ tmp_files = {}

\* The response is the refusal of the stage the request stopped in.
RefusedIn(n, statuses) ==
    /\ stages = SubSeq(StageOrder, 1, n)
    /\ response.status \in statuses
    /\ NotInvoked

C18_TempFilesRemoved ==
    (entry = "request" /\ pc = "responded")
    => (tmp_files = {} /\ file = [size |-> None])

\* A signed-in user's request whose original could not be stored: its
\* temporary file was written and is gone.
C18_Witness ==
    /\ entry = "request"
    /\ pc = "responded"
    /\ request.user
    /\ response.status = 500
    /\ response.detail = "Failed to store original image"
    /\ stages = StageOrder
    /\ tmp_files = {}

\* C19: for every preset the dimensions string handed to callers is
\* "{width}x{height}" with an ASCII "x" and nothing outside ASCII, both in
\* the metadata mapping save_optimized returns and in the X-Dimensions
\* header of a direct image response.
C19_AsciiDimensions ==
    /\ (proc # "utils" /\ metadata # NoMetadata)
       => metadata.dimensions[2] = "x"
    /\ (/\ entry = "request" /\ pc = "responded"
        /\ response.status = 200 /\ request.format = "image")
       => response.X_Dimensions[2] = "x"

\* The format a search of the running processor writes next.
SearchFormat == IF proc \in {"web", "custom"} THEN format ELSE "JPEG"

\* process() is past its colour and geometry steps: `image` is what the
\* search encodes.
Searching ==
    entry \in {"process", "request"} /\ pc \in {"loop", "fallback"}

\* The API is about to re-encode the processed image as JPEG.
JpegReencode ==
    /\ entry = "request"
    /\ pc = "saved"
    /\ Upper(get_compression_params(compression_quality).format) = "JPEG"

\* C20: for every processor and every input mode, an image handed to the
\* JPEG encoder (by a search, after a WebP failure, or by the API's final
\* re-encode) has mode RGB; an input with alpha reaches the search pasted
\* on white, an RGB input that needs no resize reaches it as the same
\* object, and only a Custom processor writing PNG returns an image with
\* an alpha band.
C20_RgbBeforeJpeg ==
    /\ (Searching /\ Upper(SearchFormat) = "JPEG")
       => /\ image.mode = "RGB"
          /\ source.mode \in AlphaModes => image.pixels = "on_white"
          /\ (source.mode = "RGB" /\ image.size = source.size)
             => image = source
    /\ entry \in {"process", "request"}
       => \A key \in DOMAIN known :
            key.kwargs.format = "JPEG" => key.image.mode = "RGB"
    /\ JpegReencode => result.image.mode = "RGB"
    /\ (entry = "process" /\ pc = "returned"
        /\ result.image.mode \in AlphaModes)
       => (proc = "custom" /\ Upper(format) = "PNG")

\* _smart_crop has returned.
Cropped == entry = "crop" /\ pc = "cropped"

\* C21: _smart_crop of an image whose aspect ratio equals the target's
\* (w * target_h = h * target_w) returns an image of the same width and
\* height.
C21_CropNoOpOnMatchingRatio ==
    (/\ Cropped
     /\ source.size[1] * cfg.target_height
          = source.size[2] * cfg.target_width)
    => image.size = source.size

\* n is a whole number nearest to a / b.
Rounds(n, a, b) == 2 * Abs(n * b - a) <= b

\* C22: with r = target_w / target_h, _smart_crop of a (w, h) image gives
\* (round(h * r), h) if w / h > r and (w, round(w / r)) otherwise; the two
\* opposite margins differ by at most one pixel and the crop box lies
\* inside the image.
C22_CenterCropArithmetic ==
    Cropped =>
      LET w   == source.size[1]
          h   == source.size[2]
          tw  == cfg.target_width
          th  == cfg.target_height
          box == locals.box
      IN  /\ IF w * th > h * tw
             THEN image.size[2] = h /\ Rounds(image.size[1], h * tw, th)
             ELSE image.size[1] = w /\ Rounds(image.size[2], w * th, tw)
          /\ Abs(box[1] - (w - box[3])) <= 1
          /\ Abs(box[2] - (h - box[4])) <= 1
          /\ 0 <= box[1] /\ box[1] <= box[3] /\ box[3] <= w
          /\ 0 <= box[2] /\ box[2] <= box[4] /\ box[4] <= h

\* The keys the manifest promises for every preset.
ManifestKeys ==
    {"name", "dimensions", "max_file_size", "format", "aspect_ratio",
     "use_case"}

\* The preset-id -> configuration mapping of an answered listing.
Listed ==
    IF request.endpoint = "/presets" THEN response.presets
    ELSE response.processors

\* C23: in the answer of /optimize/processors and of /presets the
\* configuration of every listed preset id has all of the keys name,
\* dimensions, max_file_size, format, aspect_ratio and use_case.
C23_ManifestShape ==
    (entry = "listing" /\ pc = "responded")
    => \A id \in DOMAIN Listed : ManifestKeys \subseteq DOMAIN Listed[id]

\* Both of two concurrent requests have been answered.
BothAnswered == parked.id # 0 /\ pc = "responded" /\ parked.pc = "responded"

TriedQuality(i) == The(attempts[i].kwargs.quality)

TriedSize(i) == attempts[i].size

\* size <= 1.1 * target, target being 0.30 of the estimate.
Tolerated(size) == 100 * size <= 33 * locals.original_size

\* |size - target|, ten times over.
TargetDistance(size) == Abs(10 * size - 3 * locals.original_size)

\* _compress_to_target_size, called on its own, has returned.
Descended == entry = "descent" /\ pc = "returned"

\* C25: the qualities quick compress tries start at 95 and strictly
\* decrease; the search returns the encoding at the first tried quality
\* whose size is at most 1.1 times the target of 0.30 of the estimate;
\* when no tried quality is that small before the quality is below 30 or
\* 20 passes have run, it returns a tried quality whose size is nearest
\* the target; the quality chosen is between 30 and 95.
C25_ToleranceRule ==
    entry = "descent" =>
      /\ \A i \in 1..Len(attempts) :
            /\ i = 1 => TriedQuality(i) = Compress_QUALITY_START
            /\ i > 1 => TriedQuality(i) < TriedQuality(i - 1)
      /\ pc = "returned" =>
            LET chosen == The(result.kwargs.quality)
                fits   == {i \in 1..Len(attempts) : Tolerated(TriedSize(i))}
            IN  /\ chosen \in Compress_QUALITY_MIN..Compress_QUALITY_START
                /\ IF fits # {}
                   THEN \E i \in fits :
                          /\ \A j \in fits : i <= j
                          /\ chosen = TriedQuality(i)
                          /\ result.kwargs = attempts[i].kwargs
                          /\ result.size = TriedSize(i)
                   ELSE /\ \/ quality < Compress_QUALITY_MIN
                           \/ Len(attempts) = Compress_MAX_ITERATIONS
                        /\ \E i \in 1..Len(attempts) :
                             /\ chosen = TriedQuality(i)
                             /\ result.kwargs = attempts[i].kwargs
                             /\ result.size = TriedSize(i)
                             /\ \A j \in 1..Len(attempts) :
                                   TargetDistance(TriedSize(i))
                                     <= TargetDistance(TriedSize(j))

\* A search that found no tolerated size, ran its 20 passes, and returned
\* a quality it tried before the last one.
C25_Witness ==
    /\ Descended
    /\ Len(attempts) = Compress_MAX_ITERATIONS
    /\ \A i \in 1..Len(attempts) : ~Tolerated(TriedSize(i))
    /\ The(result.kwargs.quality) > TriedQuality(Len(attempts))

(***************************************************************************)
(* process() and save_optimized side by side.                              *)
(***************************************************************************)
\* The presets whose search walks the grid start, start - 5, ... under a
\* ceiling.
GridPresets == {"instagram", "jury", "web", "email"}

\* What the search of process() settles on for the sizes the test loop of
\* save_optimized met: the grid quality the loop stopped at, which is the
\* first that fits, and the floor when every grid quality was too large.
SearchChoice == IF quality >= quality_min THEN quality ELSE quality_min

\* C26: save_optimized selects the quality process()'s search selects, the
\* first grid quality whose size fits the bound and the floor when none
\* fits, so the quality in the metadata is the floor whenever the range is
\* exhausted.
C26_SaveAgreesWithProcess ==
    (entry \in {"save", "request"} /\ proc \in GridPresets /\ pc = "saved")
      => metadata.quality = SearchChoice

(***************************************************************************)
(* The file save_optimized writes, against the test save that fitted.      *)
(***************************************************************************)
\* The arguments of the test save at quality q.
TestKwargs(q) ==
    CASE proc = "utils"     -> optimize_file_size_kwargs(q)
      [] proc = "instagram" -> Instagram_test_kwargs(q)
      [] proc = "jury"      -> Jury_kwargs(q)
      [] proc = "web"       -> Web_kwargs(format, q)
      [] proc = "email"     -> Email_kwargs(q)
      [] proc = "custom"    -> Custom_test_kwargs(q)
      [] proc = "compress"  -> Compress_kwargs(q)

\* The test save at the quality the loop stopped at.
TestKey == CodecKey(SaveImage, TestKwargs(quality))

\* The test loop was left by `break` on a test save that passed its check.
PassedTest ==
    /\ quality >= quality_min
    /\ TestKey \in DOMAIN known
    /\ IF proc = "compress"
       THEN Compress_reduced_by(known[TestKey],
                                known[Compress_save_estimate], 9)
       ELSE known[TestKey] <= max_size_bytes

\* C27: the file save_optimized writes is encoded with the arguments of
\* the test save that passed the size check, so when the loop accepted a
\* quality the file has the accepted size, which is within the bound.
C27_SavedFileMatchesTest ==
    (entry \in {"save", "request"} /\ pc = "saved" /\ PassedTest)
      => /\ file.kwargs = TestKwargs(quality)
         /\ file.size = known[TestKey]
         /\ proc # "compress" => file.size <= max_size_bytes

(***************************************************************************)
(* The sizes the geometry steps of process() produce.                      *)
(***************************************************************************)
\* Both sides hold at least one pixel.
Positive(size) == size[1] >= 1 /\ size[2] >= 1

\* No side is longer than it was.
NotLonger(size, before) == size[1] <= before[1] /\ size[2] <= before[2]

\* C28: every geometry step process() executes on an image of at least
\* one pixel a side (the centre crop, the downscale to a longest side, the
\* scale to a width or a height) yields an image of at least one pixel a
\* side, and no crop or downscale yields a side longer than the input's.
\* A step that computes a side of zero is refused by Image.resize with
\* ValueError.
C28_GeometryNeverDegenerates ==
    /\ (entry = "crop" /\ pc = "cropped")
         => Positive(image.size) /\ NotLonger(image.size, source.size)
    /\ entry = "process" => error # "ValueError"
    /\ (entry = "process" /\ pc # "process" /\ error = None)
         => Positive(image.size)
    /\ (entry = "process" /\ proc \in {"jury", "web"} /\ pc = "loop")
         => NotLonger(image.size, source.size)

(***************************************************************************)
(* The declared type of an image response against the bytes it carries.    *)
(***************************************************************************)
\* The encoding of image_data: the format its save was made with.
Delivered == Upper(image_data.kwargs.format)

\* optimize_image answered 200 with the image itself.
ImageAnswered ==
    /\ entry = "request"
    /\ pc = "responded"
    /\ response.status = 200
    /\ request.format = "image"

\* C29: in a format=image response the Content-Type and the extension of
\* the file name say what the bytes are: image/webp and .webp only for
\* WebP-encoded bytes, image/jpeg and .jpg only for JPEG-encoded bytes.
C29_DeclaredTypeMatchesBytes ==
    ImageAnswered
      => /\ response.media_type = "image/webp" => Delivered = "WEBP"
         /\ response.file_ext = "webp" => Delivered = "WEBP"
         /\ response.media_type = "image/jpeg" => Delivered = "JPEG"
         /\ response.file_ext = "jpg" => Delivered = "JPEG"

(***************************************************************************)
(* The jury band against a search under the ceiling alone.                 *)
(***************************************************************************)
\* The loop saves that are not above the maximum.
UnderCeiling ==
    {i \in 1..Len(LoopAttempts) : LoopAttempts[i].size <= max_size_bytes}

\* C30: _optimize_for_jury_size returns what a search under the 2MB
\* ceiling alone (start 95, floor 60, step 5, the floor when nothing fits)
\* returns: it saves at 95, 90, ..., stops at the first save that is not
\* above 2MB and returns that encoding, and returns the encoding at 60 when
\* every save was above 2MB; the 1MB minimum changes nothing in that.
C30_MinimumIsIdle ==
    (proc = "jury" /\ SearchReturned)
      => LET tries == LoopAttempts
             n     == Len(tries)
         IN  /\ \A i \in 1..n :
                  tries[i].kwargs =
                    Jury_kwargs(Jury_QUALITY_START - Jury_QUALITY_STEP * (i - 1))
             /\ IF UnderCeiling # {}
                THEN /\ UnderCeiling = {n}
                     /\ result.kwargs = tries[n].kwargs
                     /\ result.size = tries[n].size
                ELSE /\ tries[n].kwargs = Jury_kwargs(Jury_QUALITY_MIN)
                     /\ result.kwargs = Jury_kwargs(Jury_QUALITY_MIN)
                     /\ result.size = tries[n].size

\* A search that came below 1MB after being above 2MB and returned, from
\* the code after the loop, the encoding of that quality above the floor.
C30_Witness ==
    /\ proc = "jury"
    /\ SearchReturned
    /\ result.branch = "fallback"
    /\ Len(LoopAttempts) >= 2
    /\ UnderCeiling # {}
    /\ result.size < min_size_bytes
    /\ The(result.kwargs.quality) > Jury_QUALITY_MIN
====
